---- MODULE Spec2Model ----
(***************************************************************************)
(* A model of pygcam's scenario setup engine (src/pygcam/xmlSetup.py):     *)
(* iterators, template expansion, action formatting, the two-phase run of  *)
(* a scenario's actions against an editor, and the document cache.         *)
(*                                                                         *)
(* Strings are sequences of tokens.  "{", "}", "," and " " are always      *)
(* tokens of their own; any other token stands for a run of literal        *)
(* characters that contains none of those four.                            *)
(***************************************************************************)
EXTENDS Integers, Sequences, FiniteSets, TLC

\* ------------------------------------------------------------------------
\* Bounds of the model
\* ------------------------------------------------------------------------
MaxLen == 3
MaxNum == 4
MaxVals == 2
MaxRuns == 2
MaxCalls == 2

\* ------------------------------------------------------------------------
\* Python values
\* ------------------------------------------------------------------------
\* None, as a value that is no string of the model (no token is "None")
None == <<"None">>

\* Python truthiness of an optional string: None and '' are false
Truthy(s) == s # None /\ s # <<>>

\* x or y
Or(x, y) == IF Truthy(x) THEN x ELSE y

Ok(v) == [ok |-> TRUE, val |-> v, err |-> "none"]
Raise(e) == [ok |-> FALSE, val |-> None, err |-> e]

\* the index of the first "}" of s at or after position i, 0 when there is none
RECURSIVE FindClose(_, _)
FindClose(s, i) ==
    IF i > Len(s) THEN 0
    ELSE IF s[i] = "}" THEN i
    ELSE FindClose(s, i + 1)

\* s.format(**d) from position i on, acc being the text produced so far:
\* "{{" and "}}" give one literal brace, "{name}" gives d[name]; a lone
\* brace is a ValueError, an empty field an IndexError (no positional
\* argument is passed), an unbound name a KeyError.
RECURSIVE FormatFrom(_, _, _, _)
FormatFrom(s, d, i, acc) ==
    IF i > Len(s) THEN Ok(acc)
    ELSE IF s[i] = "{" THEN
        IF i < Len(s) /\ s[i + 1] = "{" THEN FormatFrom(s, d, i + 2, Append(acc, "{"))
        ELSE LET j == FindClose(s, i + 1) IN
             IF j = 0 THEN Raise("ValueError")
             ELSE LET field == SubSeq(s, i + 1, j - 1) IN
                  IF \E k \in 1..Len(field) : field[k] = "{" THEN Raise("ValueError")
                  ELSE IF field = <<>> THEN Raise("IndexError")
                  ELSE IF field \notin DOMAIN d THEN Raise("KeyError")
                  ELSE FormatFrom(s, d, j + 1, acc \o d[field])
    ELSE IF s[i] = "}" THEN
        IF i < Len(s) /\ s[i + 1] = "}" THEN FormatFrom(s, d, i + 2, Append(acc, "}"))
        ELSE Raise("ValueError")
    ELSE FormatFrom(s, d, i + 1, Append(acc, s[i]))

\* str.format(**d)
StrFormat(s, d) == FormatFrom(s, d, 1, <<>>)

\* s.split(','): the items between the commas, empty items kept
RECURSIVE SplitFrom(_, _, _, _)
SplitFrom(s, i, cur, acc) ==
    IF i > Len(s) THEN Append(acc, cur)
    ELSE IF s[i] = "," THEN SplitFrom(s, i + 1, <<>>, Append(acc, cur))
    ELSE SplitFrom(s, i + 1, Append(cur, s[i]), acc)

StrSplit(s) == SplitFrom(s, 1, <<>>, <<>>)

\* str.strip: leading and trailing blanks removed
RECURSIVE LStrip(_)
LStrip(s) == IF s # <<>> /\ Head(s) = " " THEN LStrip(Tail(s)) ELSE s

RECURSIVE RStrip(_)
RStrip(s) == IF s # <<>> /\ s[Len(s)] = " " THEN RStrip(SubSeq(s, 1, Len(s) - 1)) ELSE s

StrStrip(s) == RStrip(LStrip(s))

\* a map that leaves the items as split
MapNoStrip(ss) == ss

\* map(str.strip, seq)
MapStrip(ss) == [k \in 1..Len(ss) |-> StrStrip(ss[k])]

\* x in seq
InSeq(x, ss) == \E k \in 1..Len(ss) : ss[k] = x

\* '%d' % n : the decimal digits of n, with a sign when negative
Digit(n) == <<"0", "1", "2", "3", "4", "5", "6", "7", "8", "9">>[n + 1]

RECURSIVE Digits(_)
Digits(n) == IF n < 10 THEN <<Digit(n)>> ELSE Append(Digits(n \div 10), Digit(n % 10))

FormatD(n) == IF n < 0 THEN <<"-">> \o Digits(-n) ELSE Digits(n)

\* '%.1f' % float(n) for a float of integral value n
FormatF(n) == FormatD(n) \o <<".", "0">>

\* int(text) for the decimal text of an XML attribute
DigitVal(c) == CHOOSE n \in 0..9 : Digit(n) = c

RECURSIVE ParseNat(_)
ParseNat(s) == IF Len(s) = 1 THEN DigitVal(s[1])
               ELSE 10 * ParseNat(SubSeq(s, 1, Len(s) - 1)) + DigitVal(s[Len(s)])

ParseInt(s) == IF Head(s) = "-" THEN 0 - ParseNat(Tail(s)) ELSE ParseNat(s)

\* ------------------------------------------------------------------------
\* Iterator
\* ------------------------------------------------------------------------
\* a range that leaves the stop value out, as Python's range() does
RECURSIVE irangeExclusive(_, _, _)
irangeExclusive(start, stop, step) ==
    IF start < stop THEN <<start>> \o irangeExclusive(start + step, stop, step)
    ELSE <<>>

\* irange(start, stop, step): start, start+step, ... while <= stop.
\* Only called with step > 0 here; IteratorInit keeps the other case apart.
RECURSIVE irange(_, _, _)
irange(start, stop, step) ==
    IF start <= stop THEN <<start>> \o irange(start + step, stop, step)
    ELSE <<>>

\* a test of min and max made on their numbers, which takes 0 for missing
HasMinMaxNonZero(node) ==
    /\ Truthy(node.min) /\ Truthy(node.max)
    /\ ParseInt(node.min) # 0 /\ ParseInt(node.max) # 0

\* "minValue and maxValue", on the attribute texts
HasMinMax(node) == Truthy(node.min) /\ Truthy(node.max)

\* Iterator.__init__(node): the object, or the error raised.  A numeric
\* iterator whose loop never ends (step <= 0 with min <= max) is reported
\* as the outcome "hang": the constructor does not return.  The numeric
\* attributes are texts of integers; a float iterator takes them as floats
\* of integral value (frange is the loop of irange) and formats with '%.1f'.
IteratorInit(node) ==
    IF node.type \in {"int", "float"} THEN
        IF ~HasMinMax(node) THEN Raise("SetupException")
        ELSE LET min == ParseInt(node.min)
                 max == ParseInt(node.max)
                 step == IF node.step = None THEN 1 ELSE ParseInt(node.step)
             IN  IF step <= 0 /\ min <= max THEN Raise("hang")
                 ELSE LET r == irange(min, max, step) IN
                      Ok([name |-> node.name, type |-> node.type,
                          min |-> min, max |-> max, step |-> step,
                          values |-> [k \in 1..Len(r) |->
                                        IF node.type = "int" THEN FormatD(r[k])
                                        ELSE FormatF(r[k])]])
    ELSE \* 'list'
        IF ~Truthy(node.values) THEN Raise("SetupException")
        ELSE Ok([name |-> node.name, type |-> node.type,
                 min |-> 0, max |-> 0, step |-> 0,
                 values |-> MapStrip(StrSplit(node.values))])

\* an <iterator> element
IterNode(name, type, min, max, step, values) ==
    [name |-> name, type |-> type, min |-> min, max |-> max, step |-> step,
     values |-> values]

ListIter(name, values) == IterNode(name, "list", None, None, None, values)

\* ------------------------------------------------------------------------
\* Actions
\* ------------------------------------------------------------------------
\* an <insert>, <add>, <replace>, <delete> or <function> element
LeafNode(tag, name, dynamic, text) ==
    [tag |-> tag, name |-> name, dynamic |-> dynamic, after |-> None,
     text |-> text, value1 |-> None, value2 |-> None, matches |-> TRUE,
     children |-> <<>>]

InsertNode(name, dynamic, text, after) ==
    [LeafNode("insert", name, dynamic, text) EXCEPT !.after = after]

\* an <if> element
IfNode(value1, value2, matches, children) ==
    [tag |-> "if", name |-> None, dynamic |-> FALSE, after |-> None,
     text |-> None, value1 |-> value1, value2 |-> value2, matches |-> matches,
     children |-> children]

\* _classForNode(node): the action object of an element.  The class is
\* the capitalized tag; ConfigActionBase.__init__, ConfigAction.__init__,
\* Insert.__init__ and If.__init__ set the fields.
RECURSIVE classForNode(_)
classForNode(node) ==
    [tag |-> node.tag,
     content |-> node.text,
     formattedContent |-> None,
     dynamic |-> IF node.tag = "if" THEN FALSE ELSE node.dynamic,
     name |-> node.name,
     after |-> node.after,
     value1 |-> node.value1,
     value2 |-> node.value2,
     matches |-> node.matches,
     actions |-> [k \in 1..Len(node.children) |-> classForNode(node.children[k])],
     formattedValue1 |-> <<>>,
     formattedValue2 |-> <<>>]

\* a formatContent that adds the new text to the cached one
LeafFormatContentAppends(a, d) ==
    LET content == Or(a.formattedContent, a.content) IN
    IF ~Truthy(content) THEN [obj |-> [a EXCEPT !.formattedContent = None], err |-> "none"]
    ELSE LET r == StrFormat(content, d) IN
         IF r.ok
         THEN [obj |-> [a EXCEPT !.formattedContent =
                           (IF Truthy(@) THEN @ ELSE <<>>) \o r.val],
               err |-> "none"]
         ELSE [obj |-> a, err |-> r.err]

\* ConfigActionBase.formatContent(formatDict) on a leaf action: the action
\* afterwards and the error raised, if any (the assignment is not made then)
LeafFormatContent(a, d) ==
    LET content == Or(a.formattedContent, a.content) IN
    IF ~Truthy(content) THEN [obj |-> [a EXCEPT !.formattedContent = None], err |-> "none"]
    ELSE LET r == StrFormat(content, d) IN
         IF r.ok THEN [obj |-> [a EXCEPT !.formattedContent = r.val], err |-> "none"]
         ELSE [obj |-> a, err |-> r.err]

\* formatContent of an action (If.formatContent for an <if>), and of a
\* list of actions in order, stopping at the first error
RECURSIVE FormatContent(_, _)
RECURSIVE FormatAll(_, _, _)
FormatContent(a, d) ==
    IF a.tag # "if" THEN LeafFormatContent(a, d)
    ELSE LET value1 == Or(a.formattedValue1, a.value1)
             value2 == Or(a.formattedValue2, a.value2)
         IN  IF value1 = None THEN [obj |-> a, err |-> "AttributeError"]
             ELSE LET r1 == StrFormat(value1, d) IN
             IF ~r1.ok THEN [obj |-> a, err |-> r1.err]
             ELSE LET a1 == [a EXCEPT !.formattedValue1 = r1.val] IN
             IF value2 = None THEN [obj |-> a1, err |-> "AttributeError"]
             ELSE LET r2 == StrFormat(value2, d) IN
             IF ~r2.ok THEN [obj |-> a1, err |-> r2.err]
             ELSE LET a2 == [a1 EXCEPT !.formattedValue2 = r2.val]
                      rs == FormatAll(a2.actions, d, 1)
                  IN  [obj |-> [a2 EXCEPT !.actions = rs.objs], err |-> rs.err]

FormatAll(as, d, k) ==
    IF k > Len(as) THEN [objs |-> as, err |-> "none"]
    ELSE LET r == FormatContent(as[k], d)
             as1 == [as EXCEPT ![k] = r.obj]
         IN  IF r.err # "none" THEN [objs |-> as1, err |-> r.err]
             ELSE FormatAll(as1, d, k + 1)

\* ------------------------------------------------------------------------
\* Dictionaries
\* ------------------------------------------------------------------------
\* d[k] = v on a dict
DictPut(d, k, v) == [x \in DOMAIN d \cup {k} |-> IF x = k THEN v ELSE d[x]]

\* An OrderedDict is the sequence of its entries in order of first insertion.
OdHas(od, k) == \E n \in 1..Len(od) : od[n].key = k

OdGet(od, k) == od[CHOOSE n \in 1..Len(od) : od[n].key = k].val

OdKeys(od) == [n \in 1..Len(od) |-> od[n].key]

\* a store that keeps the entry a key already has (setdefault)
OdPutKeepFirst(od, k, v) ==
    IF OdHas(od, k) THEN od ELSE Append(od, [key |-> k, val |-> v])

\* od[k] = v: a new key goes last, an existing key keeps its place
OdPut(od, k, v) ==
    IF OdHas(od, k)
    THEN [n \in 1..Len(od) |-> IF od[n].key = k THEN [key |-> k, val |-> v] ELSE od[n]]
    ELSE Append(od, [key |-> k, val |-> v])

\* ------------------------------------------------------------------------
\* Scenario, ScenarioGroup, ScenarioSetup: construction and expansion
\* ------------------------------------------------------------------------
\* a <scenario> element
ScenNode(name, baseline, iterator, actions) ==
    [name |-> name, baseline |-> baseline, iterator |-> iterator, actions |-> actions]

\* a <scenarioGroup> element
GroupNode(name, iterator, baselineSource, scenarios) ==
    [name |-> name, iterator |-> iterator, baselineSource |-> baselineSource,
     scenarios |-> scenarios]

\* the <setup> root element
SetupNode(defaultGroup, iterators, groups) ==
    [defaultGroup |-> defaultGroup, iterators |-> iterators, groups |-> groups]

\* Scenario.__init__(node)
ScenarioInit(node) ==
    [name |-> node.name,
     isBaseline |-> node.baseline,
     iteratorName |-> node.iterator,
     actions |-> [k \in 1..Len(node.actions) |-> classForNode(node.actions[k])]]

\* ScenarioGroup.__init__(node); the template scenarios are built from
\* node.scenarios when the group is expanded
ScenarioGroupInit(node) ==
    [name |-> node.name,
     iteratorName |-> node.iterator,
     baselineSource |-> node.baselineSource,
     finalDict |-> <<>>]

\* The state an expansion works on: the shared templateDict, the
\* iteratorDict, the groupDict being filled, the finalDict of the group
\* being expanded, the error raised ("none" while there is none), and the
\* record of the calls of the expand callbacks made so far.
ExpandState(td, iters) ==
    [td |-> td, iters |-> iters, groupDict |-> <<>>, finalDict |-> <<>>,
     err |-> "none", arg |-> None, trace |-> <<>>]

Fail(st, e) == [st EXCEPT !.err = e]

\* a getIterator that answers an undeclared name with an iterator of no
\* values, so that the template is passed over
IteratorNotDefinedSkips(st, name) == st

\* ScenarioSetup.getIterator(name), name undeclared:
\* SetupException("Iterator '%s' is not defined" % name)
IteratorNotDefined(st, name) == [st EXCEPT !.err = "SetupException", !.arg = name]

\* the listed iterators taken innermost first
RECURSIVE Reversed(_)
Reversed(q) == IF q = <<>> THEN <<>> ELSE Append(Reversed(Tail(q)), Head(q))

IteratorNamesReversed(iterName) == Reversed(MapStrip(StrSplit(iterName)))

\* map(str.strip, iterName.split(','))
IteratorNames(iterName) == MapStrip(StrSplit(iterName))

\* an iterateList that binds a name only while it is unbound
\* (templateDict.setdefault(iterName, value))
BoundSetDefault(st, iterName, k) ==
    IF iterName \in DOMAIN st.td THEN st
    ELSE [st EXCEPT !.td = DictPut(@, iterName, st.iters[iterName].values[k])]

\* iterateList: "templateDict[iterName] = value" for the k-th value
Bound(st, iterName, k) ==
    [st EXCEPT !.td = DictPut(@, iterName, st.iters[iterName].values[k])]

\* an iterateList that removes the binding of its iterator when its loop
\* is over (del templateDict[iterName])
LoopEndUnbinds(st, iterName) ==
    [st EXCEPT !.td = [x \in DOMAIN st.td \ {iterName} |-> st.td[x]]]

\* iterateList: the end of "for value in iterator"; the function returns
\* and templateDict keeps what the loop bound
LoopEnd(st, iterName) == st

\* ScenarioGroup.expandScenarios.expand(scenario): the name is formatted,
\* the scenario stored under it, and its actions formatted
ExpandScenarioStore(st, scenario, name, r) ==
    [st EXCEPT !.finalDict = OdPut(@, name, [scenario EXCEPT !.name = name,
                                                              !.actions = r.objs]),
               !.trace = Append(@, [cls |-> "Scenario", name |-> name, td |-> st.td]),
               !.err = r.err]

ExpandScenarioNamed(st, scenario, nm) ==
    IF ~nm.ok THEN Fail(st, nm.err)
    ELSE ExpandScenarioStore(st, scenario, nm.val, FormatAll(scenario.actions, st.td, 1))

ExpandScenario(st, node) ==
    ExpandScenarioNamed(st, ScenarioInit(node), StrFormat(node.name, st.td))

\* iterateList(scenarioSetup, Scenario, node, expand, iterators), from the
\* k-th value of the first iterator on: each value is bound in the shared
\* templateDict, then the other iterators are looped over, or, at the
\* innermost level, a Scenario is built from the node and expanded
RECURSIVE iterateListScenario(_, _, _, _)
iterateListScenario(st, node, iterators, k) ==
    IF st.err # "none" THEN st
    ELSE IF iterators[1] \notin DOMAIN st.iters THEN IteratorNotDefined(st, iterators[1])
    ELSE IF k > Len(st.iters[iterators[1]].values) THEN LoopEnd(st, iterators[1])
    ELSE iterateListScenario(
            IF Tail(iterators) # <<>>
            THEN iterateListScenario(Bound(st, iterators[1], k), node, Tail(iterators), 1)
            ELSE ExpandScenario(Bound(st, iterators[1], k), node),
            node, iterators, k + 1)

\* ScenarioGroup.expandScenarios: the loop over the template scenarios,
\* from the k-th on
RECURSIVE ExpandScenarios(_, _, _)
ExpandScenarios(st, nodes, k) ==
    IF st.err # "none" \/ k > Len(nodes) THEN st
    ELSE ExpandScenarios(
            IF ~Truthy(nodes[k].iterator) THEN ExpandScenario(st, nodes[k])
            ELSE iterateListScenario(st, nodes[k], IteratorNames(nodes[k].iterator), 1),
            nodes, k + 1)

\* ScenarioSetup.expandGroups.expand(group): the name is formatted, the
\* group's scenarios expanded, and the group stored under its name
ExpandGroupStore(st0, group, name, st) ==
    IF st.err # "none" THEN st
    ELSE [st EXCEPT !.groupDict = OdPut(@, name, [group EXCEPT !.name = name,
                                                              !.finalDict = st.finalDict]),
                    !.trace = Append(@, [cls |-> "ScenarioGroup", name |-> name,
                                         td |-> st0.td])]

ExpandGroupNamed(st, node, nm) ==
    IF ~nm.ok THEN Fail(st, nm.err)
    ELSE ExpandGroupStore(st, ScenarioGroupInit(node), nm.val,
                          ExpandScenarios([st EXCEPT !.finalDict = <<>>], node.scenarios, 1))

ExpandGroup(st, node) == ExpandGroupNamed(st, node, StrFormat(node.name, st.td))

\* iterateList(scenarioSetup, ScenarioGroup, node, expand, iterators), from
\* the k-th value of the first iterator on
RECURSIVE iterateListGroup(_, _, _, _)
iterateListGroup(st, node, iterators, k) ==
    IF st.err # "none" THEN st
    ELSE IF iterators[1] \notin DOMAIN st.iters THEN IteratorNotDefined(st, iterators[1])
    ELSE IF k > Len(st.iters[iterators[1]].values) THEN LoopEnd(st, iterators[1])
    ELSE iterateListGroup(
            IF Tail(iterators) # <<>>
            THEN iterateListGroup(Bound(st, iterators[1], k), node, Tail(iterators), 1)
            ELSE ExpandGroup(Bound(st, iterators[1], k), node),
            node, iterators, k + 1)

\* ScenarioSetup.expandGroups: the loop over the template groups
RECURSIVE expandGroups(_, _, _)
expandGroups(st, nodes, k) ==
    IF st.err # "none" \/ k > Len(nodes) THEN st
    ELSE expandGroups(
            IF ~Truthy(nodes[k].iterator) THEN ExpandGroup(st, nodes[k])
            ELSE iterateListGroup(st, nodes[k], IteratorNames(nodes[k].iterator), 1),
            nodes, k + 1)

\* {obj.name : obj for obj in self.iterators}, from the k-th iterator on;
\* the first constructor that fails ends the construction
RECURSIVE IteratorDict(_, _, _)
IteratorDict(nodes, k, acc) ==
    IF k > Len(nodes) THEN Ok(acc)
    ELSE LET r == IteratorInit(nodes[k]) IN
         IF ~r.ok THEN r
         ELSE IteratorDict(nodes, k + 1, DictPut(acc, nodes[k].name, r.val))

\* the templateDict a ScenarioSetup starts with
InitialTemplateDict ==
    DictPut(DictPut(<<>>, <<"scenarioDir">>, <<"{", "scenarioDir", "}">>),
            <<"baselineDir">>, <<"{", "baselineDir", "}">>)

\* ScenarioSetup.__init__(node): the object or the error, with the record
\* of the expand callbacks
ScenarioSetupExpanded(node, iters, st) ==
    IF st.err # "none"
    THEN [ok |-> FALSE, obj |-> None, err |-> st.err, arg |-> st.arg, trace |-> st.trace]
    ELSE [ok |-> TRUE,
          obj |-> [defaultGroup |-> node.defaultGroup,
                   templateDict |-> st.td,
                   iteratorDict |-> iters,
                   groupDict |-> st.groupDict],
          err |-> "none", arg |-> None, trace |-> st.trace]

ScenarioSetupIterators(node, its) ==
    IF ~its.ok THEN [ok |-> FALSE, obj |-> None, err |-> its.err, arg |-> None,
                     trace |-> <<>>]
    ELSE ScenarioSetupExpanded(node, its.val,
            expandGroups(ExpandState(InitialTemplateDict, its.val), node.groups, 1))

ScenarioSetupInit(node) ==
    ScenarioSetupIterators(node, IteratorDict(node.iterators, 1, <<>>))

\* ------------------------------------------------------------------------
\* Running a scenario
\* ------------------------------------------------------------------------
\* An action of a scenario is addressed by its path: its index in the
\* scenario's action list, then the index in each enclosing <if>'s list.
RECURSIVE GetAt(_, _)
GetAt(as, p) == IF Len(p) = 1 THEN as[p[1]] ELSE GetAt(as[p[1]].actions, Tail(p))

RECURSIVE SetAt(_, _, _)
SetAt(as, p, a) ==
    IF Len(p) = 1 THEN [as EXCEPT ![p[1]] = a]
    ELSE [as EXCEPT ![p[1]] = [@ EXCEPT !.actions = SetAt(as[p[1]].actions, Tail(p), a)]]

\* the paths of the actions of the list at path p, in declaration order
ChildPaths(p, n) == [k \in 1..n |-> Append(p, k)]

\* a ConfigAction.run that makes no test of the flag
PhaseMatchesAlways(a, dyn) == TRUE

\* ConfigAction.run: "if self.dynamic == dynamic"
PhaseMatches(a, dyn) == a.dynamic = dyn

\* an If that inherits the phase test of ConfigAction.run
IfRunsInPhase(a, dyn) == a.dynamic = dyn

\* If.run overrides ConfigAction.run and makes no test of the dynamic flag
IfRuns(a, dyn) == TRUE

\* an If.run that forgets the matches attribute
IfConditionNoMatches(a) ==
    InSeq(a.formattedValue1, MapStrip(StrSplit(a.formattedValue2)))

\* If.run: "(self.formattedValue1 in values) == self.matches", values being
\* the stripped items of formattedValue2
IfCondition(a) ==
    InSeq(a.formattedValue1, MapStrip(StrSplit(a.formattedValue2))) = a.matches

\* The names getCallableMethod knows: the editor methods registered as
\* callable from XML.
CallableMethods == {<<"setStopPeriod">>, <<"setClimateOutputInterval">>}

\* getCallableMethod(name): whether a method is returned
getCallableMethod(name) == name \in CallableMethods

\* Whether Python parses "editor.<name>(<content>)".  The token "(" stands
\* for text that leaves a parenthesis open; all other content of the model
\* is text that parses.  A missing content gives the argument None.
CodeParses(content) ==
    content = None \/ \A k \in 1..Len(content) : content[k] # "("

\* a Function._run that lets the SyntaxError of eval through
FunctionCheckLookupOnly(a) ==
    IF a.tag # "function" THEN "none"
    ELSE IF ~getCallableMethod(a.name) THEN "SetupException"
    ELSE IF ~CodeParses(a.formattedContent) THEN "SyntaxError"
    ELSE "none"

\* Function._run up to the call: SetupException when getCallableMethod
\* returns nothing and when eval raises SyntaxError; "none" for the other
\* actions, whose _run makes no test
FunctionCheck(a) ==
    IF a.tag # "function" THEN "none"
    ELSE IF ~getCallableMethod(a.name) THEN "SetupException"
    ELSE IF ~CodeParses(a.formattedContent) THEN "SetupException"
    ELSE "none"

\* Insert._run, Add._run, Replace._run, Delete._run, Function._run: the
\* editor call made; for a function, the call of the method named by the
\* action with the formatted content as its arguments
EditorCall(a) ==
    IF a.tag = "function"
    THEN [method |-> "function", name |-> a.name,
          content |-> a.formattedContent, after |-> None]
    ELSE IF a.tag = "insert"
    THEN [method |-> "insertScenarioComponent", name |-> a.name,
          content |-> a.formattedContent, after |-> a.after]
    ELSE IF a.tag = "add"
    THEN [method |-> "addScenarioComponent", name |-> a.name,
          content |-> a.formattedContent, after |-> None]
    ELSE IF a.tag = "replace"
    THEN [method |-> "updateScenarioComponent", name |-> a.name,
          content |-> a.formattedContent, after |-> None]
    ELSE [method |-> "deleteScenarioComponent", name |-> a.name,
          content |-> None, after |-> None]

\* a Scenario.run that goes on with the next action after an error
AfterRaiseContinue(rest) == rest

\* Scenario.run has no handler: when an action raises, the actions still
\* to run are abandoned
AfterRaise(rest) == <<>>

\* a parse that forgets to store the instance
CacheStoreNothing(cache, filename, id) == cache

\* ScenarioSetup.parse: "cls.documentCache[filename] = obj"
CacheStore(cache, filename, id) == DictPut(cache, filename, id)

\* a run that prefers the document's default group to the editor's
GroupKeyDefaultFirst(setup, ed) == Or(setup.defaultGroup, ed.groupName)

\* ScenarioSetup.run: the group and the scenario selected for an editor
GroupKey(setup, ed) == Or(ed.groupName, setup.defaultGroup)

ScenarioKey(ed) == Or(ed.scenario, ed.baseline)

VARIABLES
    files,          \* path -> the <setup> tree of the file at that path
    documentCache,  \* ScenarioSetup.documentCache: path -> instance
    heap,           \* the ScenarioSetup instances, an instance being its index
    lastParse,      \* the last call of parse: its path, what it returned, its error
                    \* (and the name in its message), whether the cache answered,
                    \* whether it repeats a parse of the path that failed
    firstParsed,    \* path -> the instance its first successful parse returned
    built,          \* path -> number of instances constructed for it
    expandTrace,    \* the expand callbacks of the last construction
    editor,         \* the editor of the current run and the calls it recorded
    directoryDict,  \* the directories of the current run
    dynamic,        \* the phase of the current run
    runLoc,         \* the instance, group and scenario being run
    runStart,       \* the scenario's actions when the run started
    pending,        \* paths of the actions still to run, next first
    visited,        \* paths of the actions whose run was called, in order
    status,         \* "idle", "running", "done" or "raised"
    raised,         \* the error that ended the run, and the action raising it
    runs,           \* number of runs started
    itNode, itObj,  \* an <iterator> element and what Iterator(node) gave
    gen,            \* the range generator of the Iterator under construction:
                    \* where it is, its current value, the values it yielded
    fmAction, fmDict, fmCalls, fmErr, fmOnce
                    \* an action, a format dict, the formatContent calls
                    \* made on it, the error of the last, the action after
                    \* the first call

vars == <<files, documentCache, heap, lastParse, firstParsed, built, expandTrace,
          editor, directoryDict, dynamic, runLoc, runStart, pending, visited,
          status, raised, runs, itNode, itObj, gen, fmAction, fmDict, fmCalls,
          fmErr, fmOnce>>

parseVars == <<documentCache, heap, lastParse, firstParsed, built, expandTrace>>
runVars == <<editor, directoryDict, dynamic, runLoc, runStart, pending, visited,
             status, raised, runs>>
iterVars == <<itNode, itObj, gen>>
fmtVars == <<fmAction, fmDict, fmCalls, fmErr, fmOnce>>

\* An exception: its class, the action whose run raised it (<<>> when it
\* is a lookup of run), the key of a KeyError, and the two names the
\* message of getFinalScenario puts after 'Scenario' and after 'in group'.
RaisedAt(e, p) ==
    [err |-> e, path |-> p, key |-> None, scenario |-> None, group |-> None]

NoRaise == RaisedAt("none", <<>>)

\* ScenarioGroup.getFinalScenario(name), name missing:
\* PygcamException('Scenario "%s" was not found in group "%s"' % (self.name, name))
ScenarioNotFound(group, name) ==
    [RaisedAt("PygcamException", <<>>) EXCEPT !.scenario = group.name, !.group = name]

\* the scenario a run is at
RunScenario == heap[runLoc.inst].groupDict[runLoc.g].val.finalDict[runLoc.s].val

\* the heap with the action at path p of the running scenario replaced
HeapWith(p, a) ==
    [heap EXCEPT ![runLoc.inst] =
        [@ EXCEPT !.groupDict =
            [@ EXCEPT ![runLoc.g] =
                [@ EXCEPT !.val =
                    [@ EXCEPT !.finalDict =
                        [@ EXCEPT ![runLoc.s] =
                            [@ EXCEPT !.val =
                                [@ EXCEPT !.actions = SetAt(@, p, a)]]]]]]]]

OdIndex(od, k) == CHOOSE n \in 1..Len(od) : od[n].key = k

\* ScenarioSetup.parse(filename)
Parse(filename) ==
    /\ status # "running" /\ pending = <<>>
    /\ IF filename \in DOMAIN documentCache
       THEN /\ lastParse' = [path |-> filename, ret |-> documentCache[filename],
                             err |-> "none", arg |-> None, cached |-> TRUE,
                             again |-> FALSE]
            /\ UNCHANGED <<documentCache, heap, firstParsed, built, expandTrace>>
       ELSE LET r == ScenarioSetupInit(files[filename])
                id == Len(heap) + 1
            IN  IF r.ok
                THEN /\ heap' = Append(heap, r.obj)
                     /\ documentCache' = CacheStore(documentCache, filename, id)
                     /\ lastParse' = [path |-> filename, ret |-> id, err |-> "none",
                                   arg |-> None, cached |-> FALSE, again |-> FALSE]
                     /\ firstParsed' = IF filename \in DOMAIN firstParsed THEN firstParsed
                                       ELSE DictPut(firstParsed, filename, id)
                     /\ built' = [built EXCEPT ![filename] = @ + 1]
                     /\ expandTrace' = r.trace
                ELSE /\ lastParse' = [path |-> filename, ret |-> 0, err |-> r.err,
                                   arg |-> r.arg, cached |-> FALSE,
                                   again |-> (lastParse.path = filename
                                              /\ lastParse.err # "none")]
                     /\ expandTrace' = r.trace
                     /\ UNCHANGED <<documentCache, heap, firstParsed, built>>
    /\ UNCHANGED <<files, runVars, iterVars, fmtVars>>

\* ScenarioSetup.run(editor, directoryDict, dynamic) up to the call of
\* Scenario.run: the lookups, which raise when a name is missing
ScenarioSetupRun(inst, ed, dd, dyn) ==
    /\ status # "running" /\ pending = <<>>
    /\ runs < MaxRuns
    /\ inst \in 1..Len(heap)
    /\ runs' = runs + 1
    /\ editor' = ed
    /\ directoryDict' = dd
    /\ dynamic' = dyn
    /\ visited' = <<>>
    /\ LET setup == heap[inst]
           gk == GroupKey(setup, ed)
       IN  IF ~OdHas(setup.groupDict, gk)
           THEN /\ status' = "raised"
                /\ raised' = [RaisedAt("KeyError", <<>>) EXCEPT !.key = gk]
                /\ runLoc' = [inst |-> inst, g |-> 0, s |-> 0]
                /\ UNCHANGED <<runStart, pending>>
           ELSE LET g == OdIndex(setup.groupDict, gk)
                    group == setup.groupDict[g].val
                    sk == ScenarioKey(ed)
                IN  IF ~OdHas(group.finalDict, sk)
                    THEN /\ status' = "raised"
                         /\ raised' = ScenarioNotFound(group, sk)
                         /\ runLoc' = [inst |-> inst, g |-> g, s |-> 0]
                         /\ UNCHANGED <<runStart, pending>>
                    ELSE LET s == OdIndex(group.finalDict, sk)
                             scenario == group.finalDict[s].val
                         IN  /\ status' = "running"
                             /\ raised' = NoRaise
                             /\ runLoc' = [inst |-> inst, g |-> g, s |-> s]
                             /\ runStart' = scenario.actions
                             /\ pending' = ChildPaths(<<>>, Len(scenario.actions))
    /\ UNCHANGED <<files, parseVars, iterVars, fmtVars>>

\* ConfigAction.run of the next action, an Insert, Add, Replace, Delete or
\* Function: in its phase the content is formatted and _run called; a
\* Function first looks its method up and has its call parsed; the editor
\* call may fail
ConfigActionRun ==
    /\ pending # <<>>
    /\ LET p == Head(pending)
           a == GetAt(RunScenario.actions, p)
       IN  /\ a.tag # "if"
           /\ visited' = Append(visited, p)
           /\ IF ~PhaseMatches(a, dynamic)
              THEN /\ pending' = Tail(pending)
                   /\ UNCHANGED <<heap, editor, status, raised>>
              ELSE LET r == LeafFormatContent(a, directoryDict) IN
                   IF r.err # "none"
                   THEN /\ status' = "raised"
                        /\ raised' = RaisedAt(r.err, p)
                        /\ pending' = AfterRaise(Tail(pending))
                        /\ UNCHANGED <<heap, editor>>
                   ELSE /\ heap' = HeapWith(p, r.obj)
                        /\ \E fails \in BOOLEAN :
                              IF FunctionCheck(r.obj) # "none"
                              THEN /\ status' = "raised"
                                   /\ raised' = RaisedAt(FunctionCheck(r.obj), p)
                                   /\ pending' = AfterRaise(Tail(pending))
                                   /\ UNCHANGED editor
                              ELSE IF fails
                              THEN /\ status' = "raised"
                                   /\ raised' = RaisedAt("EditorError", p)
                                   /\ pending' = AfterRaise(Tail(pending))
                                   /\ UNCHANGED editor
                              ELSE /\ editor' = [editor EXCEPT !.calls =
                                          Append(@, [call |-> EditorCall(r.obj), path |-> p])]
                                   /\ pending' = Tail(pending)
                                   /\ UNCHANGED <<status, raised>>
    /\ UNCHANGED <<files, documentCache, lastParse, firstParsed, built, expandTrace,
                   directoryDict, dynamic, runLoc, runStart, runs, iterVars, fmtVars>>

\* If.run of the next action, an If: whatever the phase, its children are
\* run next when its condition holds
IfRun ==
    /\ pending # <<>>
    /\ LET p == Head(pending)
           a == GetAt(RunScenario.actions, p)
       IN  /\ a.tag = "if"
           /\ visited' = Append(visited, p)
           /\ pending' = IF IfRuns(a, dynamic) /\ IfCondition(a)
                         THEN ChildPaths(p, Len(a.actions)) \o Tail(pending)
                         ELSE Tail(pending)
    /\ UNCHANGED <<files, parseVars, editor, directoryDict, dynamic, runLoc, runStart,
                   status, raised, runs, iterVars, fmtVars>>

\* Scenario.run returns once every action has run
ScenarioRunReturn ==
    /\ status = "running" /\ pending = <<>>
    /\ status' = "done"
    /\ UNCHANGED <<files, parseVars, editor, directoryDict, dynamic, runLoc, runStart,
                   pending, visited, raised, runs, iterVars, fmtVars>>

\* ------------------------------------------------------------------------
\* The setup files, editors and directories of the model
\* ------------------------------------------------------------------------
PhScenarioDir == <<"{", "scenarioDir", "}">>
PhBaselineDir == <<"{", "baselineDir", "}">>
PhI == <<"{", "i", "}">>
PhJ == <<"{", "j", "}">>

\* one group template "grp-{i}" over the list iterator i = 1, 2 holding
\* the scenario "scen" with one static add action
DocIterGroup ==
    SetupNode(<<"grp-", "1">>,
        <<ListIter(<<"i">>, <<"1", ",", "2">>)>>,
        <<GroupNode(<<"grp-">> \o PhI, <<"i">>, None,
            <<ScenNode(<<"scen">>, TRUE, None,
                <<LeafNode("add", <<"file">>, FALSE,
                           <<"path-">> \o PhI \o <<".xml">>)>>)>>)>>)

\* one group "g" with a baseline of mixed static and dynamic actions and
\* nested conditionals, a scenario whose second action fails to format at
\* run time, and a scenario template over the list iterator j = a, c
DocActions ==
    SetupNode(<<"g">>,
        <<ListIter(<<"j">>, <<"a", ",", " ", "c">>)>>,
        <<GroupNode(<<"g">>, None, None,
            <<ScenNode(<<"base">>, TRUE, None,
                <<InsertNode(<<"in">>, FALSE, PhScenarioDir \o <<"/a.xml">>, <<"anchor">>),
                  LeafNode("add", <<"dyn">>, TRUE, <<"d.xml">>),
                  IfNode(<<"x">>, <<"x", ",", "y">>, TRUE,
                      <<LeafNode("replace", <<"rep">>, TRUE, PhBaselineDir \o <<"/r.xml">>),
                        IfNode(<<"x">>, <<"y", ",", " ", "z">>, FALSE,
                            <<LeafNode("delete", <<"del">>, FALSE, None),
                              LeafNode("add", <<"deep">>, TRUE, <<"n.xml">>)>>),
                        IfNode(<<"x">>, <<"x", ",", "y">>, FALSE,
                            <<LeafNode("add", <<"never">>, FALSE, <<"never.xml">>)>>)>>),
                  LeafNode("delete", <<"last">>, FALSE, None)>>),
              ScenNode(<<"bad">>, FALSE, None,
                <<LeafNode("add", <<"ok">>, FALSE, <<"ok.xml">>),
                  LeafNode("add", <<"brace">>, FALSE, <<"{", "{", "x", "}", "}">>),
                  LeafNode("replace", <<"after">>, FALSE, <<"after.xml">>)>>),
              ScenNode(<<"s-">> \o PhJ, FALSE, <<"j">>,
                <<IfNode(PhJ, <<"a", ",", " ", "b", ",", " ", "c">>, TRUE,
                      <<LeafNode("add", <<"n">> \o PhJ, TRUE, PhJ \o <<".xml">>)>>),
                  IfNode(<<" ", "a">>, <<" ", "a">>, TRUE,
                      <<LeafNode("add", <<"blank">>, FALSE, <<"b.xml">>)>>),
                  LeafNode("replace", <<"st">>, FALSE, PhScenarioDir \o <<"/">> \o PhJ)>>)>>)>>)

\* a group template over an iterator the document does not declare
DocUndeclared ==
    SetupNode(<<"g">>, <<>>,
        <<GroupNode(<<"g">> \o PhI, <<"i">>, None,
            <<ScenNode(<<"base">>, TRUE, None, <<>>)>>)>>)

Paths == {"a.xml", "b.xml"}

\* the file systems the engine is started on
FileSystems ==
    {[p \in Paths |-> IF p = "a.xml" THEN DocActions ELSE DocIterGroup],
     [p \in Paths |-> DocIterGroup],
     [p \in Paths |-> IF p = "a.xml" THEN DocUndeclared ELSE DocActions]}

GroupNames == {None, <<"grp-", "2">>, <<"nogroup">>}
ScenarioNames == {None, <<"scen">>, <<"bad">>, <<"s-", "a">>, <<"s-", "c">>}
BaselineNames == {<<"base">>}

Editors ==
    [groupName : GroupNames, scenario : ScenarioNames, baseline : BaselineNames,
     calls : {<<>>}]

Directories(n) ==
    DictPut(DictPut(<<>>, <<"scenarioDir">>, <<"sd", n>>), <<"baselineDir">>, <<"bd", n>>)

DirectoryDicts == {Directories("1"), Directories("2")}

\* ------------------------------------------------------------------------
\* Specifications
\* ------------------------------------------------------------------------
IdleParse ==
    /\ documentCache = <<>>
    /\ heap = <<>>
    /\ lastParse = [path |-> "", ret |-> 0, err |-> "none", arg |-> None,
                    cached |-> FALSE, again |-> FALSE]
    /\ firstParsed = <<>>
    /\ built = [p \in DOMAIN files |-> 0]
    /\ expandTrace = <<>>

IdleRun ==
    /\ editor = [groupName |-> None, scenario |-> None, baseline |-> None, calls |-> <<>>]
    /\ directoryDict = <<>>
    /\ dynamic = FALSE
    /\ runLoc = [inst |-> 0, g |-> 0, s |-> 0]
    /\ runStart = <<>>
    /\ pending = <<>>
    /\ visited = <<>>
    /\ status = "idle"
    /\ raised = NoRaise
    /\ runs = 0

\* no iterator constructed yet
Unbuilt == Raise("unbuilt")

\* A number: an int, or a float of integral value, written hi * 2^53 + lo
\* with hi 0 or 1 and lo small against 2^53
Num(hi, lo) == [hi |-> hi, lo |-> lo]

\* no generator made yet
IdleGen == [pc |-> "idle", cur |-> Num(0, 0), out |-> <<>>]

IdleIter == itNode = None /\ itObj = Unbuilt /\ gen = IdleGen

IdleFormat ==
    /\ fmAction = None /\ fmDict = <<>> /\ fmCalls = 0 /\ fmErr = "none"
    /\ fmOnce = [obj |-> None, err |-> "none"]

\* The engine: files are parsed (and cached) and scenarios run.
Init ==
    /\ files \in FileSystems
    /\ IdleParse /\ IdleRun /\ IdleIter /\ IdleFormat

Next ==
    \/ \E filename \in Paths : Parse(filename)
    \/ \E inst \in 1..2, ed \in Editors, dd \in DirectoryDicts, dyn \in BOOLEAN :
          ScenarioSetupRun(inst, ed, dd, dyn)
    \/ ConfigActionRun
    \/ IfRun
    \/ ScenarioRunReturn

Spec == Init /\ [][Next]_vars

\* ------------------------------------------------------------------------
\* Properties of a run
\* ------------------------------------------------------------------------
\* the calls the editor of the current run recorded, and their actions
Calls == editor.calls

CallPaths == [k \in 1..Len(Calls) |-> Calls[k].path]

IsLeafTag(tag) == tag \in {"insert", "add", "replace", "delete"}

\* the editor method the specification assigns to each kind of action
MethodOf(tag) ==
    CASE tag = "insert" -> "insertScenarioComponent"
      [] tag = "add" -> "addScenarioComponent"
      [] tag = "replace" -> "updateScenarioComponent"
      [] tag = "delete" -> "deleteScenarioComponent"

\* p comes before q in declaration order (p is an ancestor of q, or is
\* declared earlier)
RECURSIVE PathBefore(_, _)
PathBefore(p, q) ==
    IF p = <<>> THEN q # <<>>
    ELSE IF q = <<>> THEN FALSE
    ELSE IF Head(p) # Head(q) THEN Head(p) < Head(q)
    ELSE PathBefore(Tail(p), Tail(q))

InOrder(ps) == \A m, n \in 1..Len(ps) : m < n => PathBefore(ps[m], ps[n])

Visited == {visited[k] : k \in 1..Len(visited)}

\* a run that got to the scenario's actions
InRun == status \in {"running", "done", "raised"} /\ runLoc.s # 0

\* the action of the running scenario at path p, as the run found it
ActionAt(p) == GetAt(runStart, p)

NumCalls(p) == Cardinality({k \in 1..Len(Calls) : Calls[k].path = p})

\* C1: an Insert, Add, Replace or Delete action whose run is called makes
\* exactly one call of the editor, of its own method, when its dynamic
\* flag equals the phase of the run, and none when it differs; so every
\* call the editor records comes from an action whose flag is the phase.
\* (The action at which the run raised is left out: its call did not
\* complete.)
C1_PhaseIsolation ==
    InRun =>
        /\ \A k \in 1..Len(Calls) :
              LET a == ActionAt(Calls[k].path) IN
              /\ IsLeafTag(a.tag)
              /\ a.dynamic = dynamic
              /\ Calls[k].call.method = MethodOf(a.tag)
        /\ \A p \in Visited :
              LET a == ActionAt(p) IN
              (IsLeafTag(a.tag) /\ p # raised.path) =>
                  NumCalls(p) = IF a.dynamic = dynamic THEN 1 ELSE 0

\* a finished dynamic pass that skipped a static action and ran a dynamic one
C1_Witness ==
    /\ InRun /\ status = "done" /\ dynamic
    /\ \E p \in Visited : IsLeafTag(ActionAt(p).tag) /\ ~ActionAt(p).dynamic
                            /\ NumCalls(p) = 0
    /\ \E p \in Visited : IsLeafTag(ActionAt(p).tag) /\ ActionAt(p).dynamic
                            /\ NumCalls(p) = 1

IfPaths == {p \in Visited : ActionAt(p).tag = "if"}

ChildSet(p) == {Append(p, k) : k \in 1..Len(ActionAt(p).actions)}

\* C2: in a run of either phase every action of the scenario's list has
\* its run called, an If among them whatever the phase; the children of an
\* If whose condition holds all have their run called, those of an If whose
\* condition fails never; runs are called in declaration order; and a
\* child of an If reaches the editor only when its own flag is the phase.
C2_IfBothPhases ==
    InRun =>
        /\ InOrder(visited)
        /\ status = "done" => \A k \in 1..Len(runStart) : <<k>> \in Visited
        /\ \A p \in IfPaths :
              IF IfCondition(ActionAt(p))
              THEN status = "done" => ChildSet(p) \subseteq Visited
              ELSE ChildSet(p) \cap Visited = {}
        /\ \A k \in 1..Len(Calls) :
              Len(Calls[k].path) > 1 => ActionAt(Calls[k].path).dynamic = dynamic

\* a finished dynamic pass in which a child of an If nested in an If
\* reached the editor, and a static child of an If did not
C2_Witness ==
    /\ InRun /\ status = "done" /\ dynamic
    /\ \E k \in 1..Len(Calls) : Len(Calls[k].path) = 3
    /\ \E p \in Visited : Len(p) = 3 /\ ~ActionAt(p).dynamic /\ NumCalls(p) = 0

\* the alternatives of an If: the items of its formatted value2 between
\* the commas, without the blanks around them
Alternatives(a) ==
    LET items == StrSplit(a.formattedValue2) IN {StrStrip(items[k]) : k \in 1..Len(items)}

\* C3: the children of an If whose run is called are run exactly when
\* (value1 in alternatives) == matches, value1 being the formatted value1;
\* with value1 "x" and value2 "x,y" they run when matches is true and do
\* not when it is false.
C3_IfCondition ==
    (InRun /\ status = "done") =>
        \A p \in IfPaths :
            LET a == ActionAt(p)
                holds == (a.formattedValue1 \in Alternatives(a)) = a.matches
            IN  /\ holds => ChildSet(p) \subseteq Visited
                /\ ~holds => ChildSet(p) \cap Visited = {}
                /\ (a.formattedValue1 = <<"x">> /\ a.formattedValue2 = <<"x", ",", "y">>)
                      => (a.matches <=> ChildSet(p) \subseteq Visited)

\* a finished run with an If of value1 "x", value2 "x,y" and matches false,
\* whose child was not run, and an If with matches false whose children were
C3_Witness ==
    /\ InRun /\ status = "done"
    /\ \E p \in IfPaths :
          /\ ActionAt(p).formattedValue1 = <<"x">>
          /\ ActionAt(p).formattedValue2 = <<"x", ",", "y">>
          /\ ~ActionAt(p).matches
          /\ ChildSet(p) # {} /\ ChildSet(p) \cap Visited = {}
    /\ \E p \in IfPaths :
          ~ActionAt(p).matches /\ ChildSet(p) # {} /\ ChildSet(p) \subseteq Visited

\* the paths of files parsed into the instance of the current run
RunFiles == {p \in DOMAIN documentCache : documentCache[p] = runLoc.inst}

\* a run on the setup "grp-{i}" over i = 1, 2 for the group grp-v and the
\* scenario "scen"
EndToEndRun(v) ==
    /\ status \in {"running", "done", "raised"}
    /\ \E p \in RunFiles : files[p] = DocIterGroup
    /\ GroupKey(heap[runLoc.inst], editor) = <<"grp-", v>>
    /\ ScenarioKey(editor) = <<"scen">>

\* C8: running the setup "grp-{i}" for the group grp-v and the scenario
\* "scen" finds both, fails only if the editor does, and when it is done
\* the editor recorded the one call addScenarioComponent("file",
\* "path-v.xml") in the static phase, and no call in the dynamic phase.
C8_EndToEnd ==
    \A v \in {"1", "2"} :
        EndToEndRun(v) =>
            /\ status = "raised" => raised.err = "EditorError" /\ Calls = <<>>
            /\ status = "done" =>
                  IF dynamic THEN Calls = <<>>
                  ELSE /\ Len(Calls) = 1
                       /\ Calls[1].call = [method |-> "addScenarioComponent",
                                           name |-> <<"file">>,
                                           content |-> <<"path-", v, ".xml">>,
                                           after |-> None]

\* a finished static run for the group grp-1, which is not the last expanded
C8_Witness ==
    EndToEndRun("1") /\ status = "done" /\ ~dynamic /\ Len(Calls) = 1

\* C9: a parse that succeeds returns the instance the first successful
\* parse of that path returned; no path has an instance constructed for it
\* more than once; and two paths never share an instance.
C9_DocumentCache ==
    /\ lastParse.ret # 0 =>
          /\ lastParse.path \in DOMAIN firstParsed
          /\ lastParse.ret = firstParsed[lastParse.path]
    /\ \A p \in DOMAIN built : built[p] <= 1
    /\ \A p, q \in DOMAIN documentCache : p # q => documentCache[p] # documentCache[q]

\* a parse answered from the cache while the other path, holding the same
\* document, has an instance of its own
C9_Witness ==
    /\ lastParse.cached
    /\ \A p \in Paths : p \in DOMAIN documentCache /\ files[p] = DocIterGroup
    /\ built[lastParse.path] = 1

\* the visited actions before the one that raised which are mutations of
\* the phase of the run
RECURSIVE MatchingBefore(_, _)
MatchingBefore(ps, k) ==
    IF ps = <<>> \/ Head(ps) = k THEN <<>>
    ELSE IF IsLeafTag(ActionAt(Head(ps)).tag) /\ ActionAt(Head(ps)).dynamic = dynamic
    THEN <<Head(ps)>> \o MatchingBefore(Tail(ps), k)
    ELSE MatchingBefore(Tail(ps), k)

\* C10: runs are called in declaration order, and when an action raises
\* the run ends with that error: the action is the last whose run was
\* called, and the editor holds exactly the calls of the mutations of the
\* phase that ran before it, in order.
C10_RaiseAborts ==
    (InRun /\ status = "raised") =>
        /\ InOrder(visited)
        /\ visited # <<>> /\ visited[Len(visited)] = raised.path
        /\ raised.err # "none"
        /\ CallPaths = MatchingBefore(visited, raised.path)

\* a run that raised at its second action, after one call and before an
\* action that would have called the editor
C10_Witness ==
    /\ InRun /\ status = "raised" /\ raised.path = <<2>>
    /\ Len(Calls) = 1 /\ Len(runStart) = 3
    /\ IsLeafTag(runStart[3].tag) /\ runStart[3].dynamic = dynamic

\* ------------------------------------------------------------------------
\* Expansion of one group template holding one scenario template
\* ------------------------------------------------------------------------
\* the sequences of 1 to n elements of S
RECURSIVE SeqsUpTo(_, _)
SeqsUpTo(S, n) ==
    IF n = 0 THEN {}
    ELSE LET shorter == SeqsUpTo(S, n - 1) IN
         {<<x>> : x \in S} \cup shorter \cup {Append(q, x) : q \in shorter, x \in S}

\* the text "v1,v2,..." of a values attribute
RECURSIVE JoinComma(_)
JoinComma(vs) ==
    IF Len(vs) = 1 THEN <<vs[1]>> ELSE <<vs[1], ",">> \o JoinComma(Tail(vs))

Ph(n) == <<"{", n, "}">>

\* the iterator attributes of the templates, and the iterators each names
IterAttrs ==
    {None, <<"X">>, <<"Y">>, <<"X", ",", "Y">>, <<"Y", ",", " ", "X">>,
     <<"X", ",", "Y", ",", "Z">>}

\* the placeholders for the names bound while a scenario is expanded
RECURSIVE Placeholders(_, _)
Placeholders(names, attrs) ==
    IF names = <<>> THEN <<>>
    ELSE (IF \E a \in attrs : a # None /\ InSeq(Head(names), a) THEN Ph(Head(names)) ELSE <<>>)
         \o Placeholders(Tail(names), attrs)

\* a <setup> with the iterators X, Y and Z, one group template and in it
\* one scenario template whose action's content names every bound iterator
ExpandDoc(xs, ys, gname, giter, sname, siter) ==
    SetupNode(<<"g">>,
        <<ListIter(<<"X">>, JoinComma(xs)), ListIter(<<"Y">>, JoinComma(ys)),
          ListIter(<<"Z">>, <<"p", ",", "q">>)>>,
        <<GroupNode(gname, giter, None,
            <<ScenNode(sname, FALSE, siter,
                <<LeafNode("add", <<"file">>, FALSE,
                           <<"c">> \o Placeholders(<<"X", "Y", "Z">>, {giter, siter}))>>)>>)>>)

ExpandDocs ==
    {ExpandDoc(xs, ys, gname, giter, sname, siter) :
        xs \in SeqsUpTo({"1", "2"}, MaxVals), ys \in SeqsUpTo({"a", "b"}, MaxVals),
        gname \in {<<"g">>, <<"g">> \o Ph("X")},
        giter \in {None, <<"X">>, <<"X", ",", "Y">>},
        sname \in {<<"s">>, <<"s">> \o Ph("X"), <<"s">> \o Ph("X") \o Ph("Y")},
        siter \in IterAttrs}

InitExpand ==
    /\ files \in [{"a.xml"} -> ExpandDocs]
    /\ IdleParse /\ IdleRun /\ IdleIter /\ IdleFormat

NextExpand == \E filename \in DOMAIN files : Parse(filename)

SpecExpand == InitExpand /\ [][NextExpand]_vars

\* the document, its templates and the instance constructed from it
TheDoc == files["a.xml"]
TheGroup == TheDoc.groups[1]
TheScenario == TheGroup.scenarios[1]
Expanded == heap # <<>>

\* the iterator names of a template, in the order listed; none when the
\* template has no iterator attribute
ListedNames(attr) == IF attr = None THEN <<>> ELSE MapStrip(StrSplit(attr))

ValuesOf(n) == heap[1].iteratorDict[<<n>>].values

\* the number of combinations of the values of names[j..]
RECURSIVE Combinations(_, _)
Combinations(names, j) ==
    IF j > Len(names) THEN 1
    ELSE Len(heap[1].iteratorDict[names[j]].values) * Combinations(names, j + 1)

\* the value of names[j] in the m-th combination in lexicographic order,
\* the first name changing slowest
LexValue(names, j, m) ==
    LET vs == heap[1].iteratorDict[names[j]].values
    IN  vs[(((m - 1) \div Combinations(names, j + 1)) % Len(vs)) + 1]

GroupCalls == SelectSeq(expandTrace, LAMBDA e : e.cls = "ScenarioGroup")
ScenarioCalls == SelectSeq(expandTrace, LAMBDA e : e.cls = "Scenario")

\* C4: the expand callback of a template is called once for each
\* combination of the values of the iterators it lists, in lexicographic
\* order with the first listed outermost, every listed name being bound
\* to the combination's value at the call; the scenario template is
\* expanded so within every expansion of its group.  With X = 1, 2 outer
\* and Y = a, b inner the names come out as (1,a), (1,b), (2,a), (2,b).
C4_CrossProduct ==
    Expanded =>
        LET gn == ListedNames(TheGroup.iterator)
            sn == ListedNames(TheScenario.iterator)
            ng == Combinations(gn, 1)
            ns == Combinations(sn, 1)
        IN  /\ Len(GroupCalls) = ng
            /\ \A m \in 1..ng : \A j \in 1..Len(gn) :
                  GroupCalls[m].td[gn[j]] = LexValue(gn, j, m)
            /\ Len(ScenarioCalls) = ng * ns
            /\ \A m \in 1..(ng * ns) : \A j \in 1..Len(sn) :
                  ScenarioCalls[m].td[sn[j]] = LexValue(sn, j, ((m - 1) % ns) + 1)
            /\ (/\ TheGroup.iterator = None
                /\ sn = <<<<"X">>, <<"Y">>>>
                /\ TheScenario.name = <<"s">> \o Ph("X") \o Ph("Y")
                /\ ValuesOf("X") = <<<<"1">>, <<"2">>>>
                /\ ValuesOf("Y") = <<<<"a">>, <<"b">>>>)
               => [m \in 1..4 |-> ScenarioCalls[m].name]
                     = <<<<"s", "1", "a">>, <<"s", "1", "b">>,
                         <<"s", "2", "a">>, <<"s", "2", "b">>>>

\* a scenario template over X = 1, 2 outer and Y = a, b inner, expanded
\* into s1a, s1b, s2a, s2b
C4_Witness ==
    /\ Expanded
    /\ TheGroup.iterator = None
    /\ ListedNames(TheScenario.iterator) = <<<<"X">>, <<"Y">>>>
    /\ ValuesOf("X") = <<<<"1">>, <<"2">>>>
    /\ ValuesOf("Y") = <<<<"a">>, <<"b">>>>
    /\ Len(ScenarioCalls) = 4
    /\ ScenarioCalls[2].name = <<"s", "1", "b">>

\* the names the calls m..n of a sequence of expand callbacks produced
NamesOf(calls, m, n) == {calls[k].name : k \in m..n}

\* the last of the calls m..n that produced the name
LastCall(calls, m, n, name) ==
    CHOOSE k \in m..n : calls[k].name = name /\ \A l \in (k + 1)..n : calls[l].name # name

KeySet(od) == {od[k].key : k \in 1..Len(od)}

\* the scenario a call of the scenario template's expand callback produces
\* under the bindings td
ExpandedScenario(name, td) ==
    [ScenarioInit(TheScenario) EXCEPT
        !.name = name,
        !.actions = <<[classForNode(TheScenario.actions[1]) EXCEPT
                          !.formattedContent = StrFormat(TheScenario.actions[1].text, td).val]>>]

\* C6: expansions that produce the same final name leave one entry under
\* that name, the object expanded last: the group mapping has one entry
\* for each distinct group name produced, that of the last expansion of
\* the group template producing it, and this group's scenario mapping has
\* one entry for each distinct scenario name produced within that
\* expansion, the scenario expanded last under the name.  A collision
\* raises no error: a construction fails only on an unbound placeholder.
C6_NameCollision ==
    /\ (lastParse.path = "a.xml" /\ lastParse.ret = 0) => lastParse.err = "KeyError"
    /\ Expanded =>
        LET groupDict == heap[1].groupDict
            ng == Len(GroupCalls)
            ns == Len(ScenarioCalls) \div ng
        IN  /\ KeySet(groupDict) = NamesOf(GroupCalls, 1, ng)
            /\ Len(groupDict) = Cardinality(NamesOf(GroupCalls, 1, ng))
            /\ \A g \in 1..Len(groupDict) :
                  LET t == LastCall(GroupCalls, 1, ng, groupDict[g].key)
                      from == (t - 1) * ns + 1
                      to == t * ns
                      finalDict == groupDict[g].val.finalDict
                  IN  /\ groupDict[g].val.name = groupDict[g].key
                      /\ KeySet(finalDict) = NamesOf(ScenarioCalls, from, to)
                      /\ Len(finalDict) = Cardinality(NamesOf(ScenarioCalls, from, to))
                      /\ \A n \in 1..Len(finalDict) :
                            LET c == ScenarioCalls[LastCall(ScenarioCalls, from, to,
                                                            finalDict[n].key)]
                            IN  finalDict[n].val = ExpandedScenario(c.name, c.td)

\* a scenario template "s" over X = 1, 2: both expansions are named "s",
\* and the one entry holds the content of the second
C6_Witness ==
    /\ Expanded
    /\ TheGroup.iterator = None /\ TheScenario.name = <<"s">>
    /\ TheScenario.iterator = <<"X">>
    /\ ValuesOf("X") = <<<<"1">>, <<"2">>>>
    /\ Len(ScenarioCalls) = 2
    /\ Len(heap[1].groupDict[1].val.finalDict) = 1
    /\ heap[1].groupDict[1].val.finalDict[1].val.actions[1].formattedContent = <<"c", "2">>

\* ------------------------------------------------------------------------
\* Construction of one numeric iterator
\* ------------------------------------------------------------------------
\* the <iterator type="int"> elements with min and max in -1..MaxNum and
\* a step of 1..MaxNum, or none
IntIterNodes ==
    {IterNode(<<"n">>, "int", FormatD(mn), FormatD(mx), st, None) :
        mn \in -1..MaxNum, mx \in -1..MaxNum,
        st \in {None} \cup {FormatD(k) : k \in 1..MaxNum}}

\* float iterators, and numeric iterators lacking min or max
FloatIterNodes ==
    {IterNode(<<"n">>, "float", FormatD(mn), FormatD(mx), st, None) :
        mn \in 0..2, mx \in 0..2, st \in {None, <<"2">>}}

LackingIterNodes ==
    {IterNode(<<"n">>, t, mn, mx, None, None) :
        t \in {"int", "float"}, mn \in {None, <<>>, <<"0">>, <<"1">>},
        mx \in {None, <<>>, <<"0">>, <<"1">>}}

\* list iterators whose values attribute is any text of at most MaxLen
\* tokens over two items, the comma and the blank, or is absent
RECURSIVE ListTexts(_)
ListTexts(n) ==
    IF n = 0 THEN {<<>>}
    ELSE LET shorter == ListTexts(n - 1) IN
         shorter \cup {Append(t, c) : t \in shorter, c \in {"a", "b", ",", " "}}

ListIterNodes ==
    {ListIter(<<"n">>, v) :
        v \in ListTexts(MaxLen) \cup {None, <<"a", ",", " ", "b", " ", ",", "c">>,
                                      <<"a", " ", "b", ",", " ", "c">>}}

IterNodes == IntIterNodes \cup FloatIterNodes \cup LackingIterNodes \cup ListIterNodes

InitIter ==
    /\ itNode \in IterNodes
    /\ itObj = Unbuilt /\ gen = IdleGen
    /\ files = <<>>
    /\ IdleParse /\ IdleRun /\ IdleFormat

\* Iterator(node)
IteratorNew ==
    /\ itObj = Unbuilt
    /\ itObj' = IteratorInit(itNode)
    /\ UNCHANGED <<files, parseVars, runVars, itNode, gen, fmtVars>>

NextIter == IteratorNew

SpecIter == InitIter /\ [][NextIter]_vars

\* the attributes of the element as integers
NodeMin == ParseInt(itNode.min)
NodeMax == ParseInt(itNode.max)
NodeStep == IF itNode.step = None THEN 1 ELSE ParseInt(itNode.step)

\* C5: an int iterator with min, max and step >= 1 yields the formatted values min,
\* min+step, min+2*step, ... for every term <= max and no other, in
\* increasing order; max itself is the last value whenever max - min is a
\* multiple of step.  min=1, max=3 gives "1","2","3" with step 1 and
\* "1","3" with step 2.
C5_NumericInclusive ==
    (/\ itObj # Unbuilt /\ itNode.type = "int"
     /\ Truthy(itNode.min) /\ Truthy(itNode.max) /\ NodeStep >= 1) =>
        /\ itObj.ok
        /\ LET values == itObj.val.values
               n == IF NodeMax < NodeMin THEN 0 ELSE ((NodeMax - NodeMin) \div NodeStep) + 1
           IN  /\ Len(values) = n
               /\ \A k \in 1..n :
                     /\ values[k] = FormatD(NodeMin + (k - 1) * NodeStep)
                     /\ NodeMin + (k - 1) * NodeStep <= NodeMax
               /\ (NodeMin <= NodeMax /\ (NodeMax - NodeMin) % NodeStep = 0)
                     => values[n] = FormatD(NodeMax)
               /\ (NodeMin = 1 /\ NodeMax = 3 /\ NodeStep = 1)
                     => values = <<<<"1">>, <<"2">>, <<"3">>>>
               /\ (NodeMin = 1 /\ NodeMax = 3 /\ NodeStep = 2)
                     => values = <<<<"1">>, <<"3">>>>

\* the iterator min=1, max=3, step=2 was constructed with the values "1","3"
C5_Witness ==
    /\ itObj.ok
    /\ NodeMin = 1 /\ NodeMax = 3 /\ NodeStep = 2
    /\ itObj.val.values = <<<<"1">>, <<"3">>>>

\* the element is numeric
Numeric == itNode.type \in {"int", "float"}

\* C17: an Iterator that was constructed has at least one value; a numeric
\* iterator whose min is greater than its max is not constructed.
C17_NonEmptyValues ==
    itObj # Unbuilt =>
        /\ itObj.ok => itObj.val.values # <<>>
        /\ (Numeric /\ Truthy(itNode.min) /\ Truthy(itNode.max) /\ NodeMin > NodeMax)
              => ~itObj.ok

\* the positions of the commas of a text, and the k-th of them (0 before
\* the first, one past the end after the last)
CommaPos(t) == {p \in 1..Len(t) : t[p] = ","}

KthComma(t, k) ==
    IF k = 0 THEN 0
    ELSE IF k > Cardinality(CommaPos(t)) THEN Len(t) + 1
    ELSE CHOOSE p \in CommaPos(t) : Cardinality({q \in CommaPos(t) : q < p}) = k - 1

\* the k-th item of a comma-separated text without the blanks around it
TrimmedItem(t, k) ==
    LET lo == KthComma(t, k - 1) + 1
        hi == KthComma(t, k) - 1
        inked == {p \in lo..hi : t[p] # " "}
    IN  IF inked = {} THEN <<>>
        ELSE SubSeq(t, CHOOSE p \in inked : \A q \in inked : p <= q,
                       CHOOSE p \in inked : \A q \in inked : q <= p)

\* C19: a list iterator with a values text has one value per
\* comma-separated item of the text, in the order of the text, each being
\* the item without its leading and trailing blanks, inner blanks and
\* repeated items kept; "a, b ,c" gives "a","b","c".
C19_ListValues ==
    (itObj # Unbuilt /\ itNode.type = "list" /\ Truthy(itNode.values)) =>
        /\ itObj.ok
        /\ LET values == itObj.val.values IN
           /\ Len(values) = Cardinality(CommaPos(itNode.values)) + 1
           /\ \A k \in 1..Len(values) : values[k] = TrimmedItem(itNode.values, k)
           /\ itNode.values = <<"a", ",", " ", "b", " ", ",", "c">>
                 => values = << <<"a">>, <<"b">>, <<"c">> >>

\* the list iterator of values "a, b ,c" was constructed
C19_Witness ==
    /\ itObj.ok
    /\ itNode.type = "list"
    /\ itNode.values = <<"a", ",", " ", "b", " ", ",", "c">>
    /\ itObj.val.values = << <<"a">>, <<"b">>, <<"c">> >>

\* C20: constructing an int or float iterator without min or without max,
\* or a list iterator without values text, raises SetupException and gives
\* no iterator; an int or float iterator with min and max (0 among the
\* values they may take) and a list iterator with a non-empty values text
\* are constructed.
C20_MissingAttributes ==
    itObj # Unbuilt =>
        /\ (Numeric /\ (~Truthy(itNode.min) \/ ~Truthy(itNode.max)))
              => (~itObj.ok /\ itObj.err = "SetupException")
        /\ (itNode.type = "list" /\ ~Truthy(itNode.values))
              => (~itObj.ok /\ itObj.err = "SetupException")
        /\ (Numeric /\ Truthy(itNode.min) /\ Truthy(itNode.max)) => itObj.ok
        /\ (itNode.type = "list" /\ Truthy(itNode.values)) => itObj.ok

\* a float iterator with max and no min was refused
C20_Witness ==
    /\ itNode.type = "float" /\ itNode.min = None /\ itNode.max = <<"1">>
    /\ ~itObj.ok /\ itObj.err = "SetupException"

\* ------------------------------------------------------------------------
\* Repeated formatting of one action
\* ------------------------------------------------------------------------
\* the texts of at most n tokens over braces and two names
RECURSIVE Texts(_)
Texts(n) ==
    IF n = 0 THEN {<<>>}
    ELSE LET shorter == Texts(n - 1) IN
         shorter \cup {Append(t, c) : t \in shorter, c \in {"{", "}", "i", "x"}}

\* an action with any text as its content, and an If with any non-empty
\* text as its value1 and one child
FormatActions ==
    {classForNode(LeafNode("add", <<"file">>, FALSE, t)) : t \in Texts(MaxLen) \cup {None}}
    \cup {classForNode(IfNode(t, v2, TRUE, <<LeafNode("add", <<"file">>, FALSE, Ph("i"))>>)) :
            t \in Texts(MaxLen) \ {<<>>}, v2 \in {<<"x", ",", "i">>, Ph("i")}}

\* format dicts binding i to a plain value, to nothing, to its own
\* placeholder (as the templateDict binds scenarioDir), to a placeholder of
\* an unbound name and to a brace
FormatDicts ==
    {DictPut(<<>>, <<"i">>, v) : v \in {<<"x">>, <<>>, Ph("i"), Ph("x"), <<"{">>}}

InitFormat ==
    /\ fmAction \in FormatActions
    /\ fmDict \in FormatDicts
    /\ fmCalls = 0
    /\ fmErr = "none"
    /\ fmOnce = [obj |-> fmAction, err |-> "none"]
    /\ files = <<>>
    /\ IdleParse /\ IdleRun /\ IdleIter

\* action.formatContent(formatDict), called again with the same dict
FormatContentCall ==
    /\ fmCalls < MaxCalls
    /\ LET r == FormatContent(fmAction, fmDict) IN
       /\ fmAction' = r.obj
       /\ fmErr' = r.err
       /\ fmOnce' = IF fmCalls = 0 THEN r ELSE fmOnce
    /\ fmCalls' = fmCalls + 1
    /\ UNCHANGED <<files, parseVars, runVars, iterVars, fmDict>>

NextFormat == FormatContentCall

SpecFormat == InitFormat /\ [][NextFormat]_vars

HasBrace(t) == \E k \in 1..Len(t) : t[k] \in {"{", "}"}

\* the formatted fields of an action and of its children
RECURSIVE FormattedFields(_)
FormattedFields(a) ==
    {a.formattedContent, a.formattedValue1, a.formattedValue2}
    \cup UNION {FormattedFields(a.actions[k]) : k \in 1..Len(a.actions)}

Started == status \in {"running", "done", "raised"} /\ runLoc.inst # 0

\* the group name the editor asks for, or the declared default; the
\* scenario name it asks for, or its baseline
WantedGroup ==
    IF editor.groupName # None /\ editor.groupName # <<>> THEN editor.groupName
    ELSE heap[runLoc.inst].defaultGroup

WantedScenario ==
    IF editor.scenario # None /\ editor.scenario # <<>> THEN editor.scenario
    ELSE editor.baseline

\* the expanded groups of the instance of the run with the wanted name,
\* and their scenarios with the wanted name
WantedGroups ==
    LET gd == heap[runLoc.inst].groupDict IN
    {gd[k].val : k \in {j \in 1..Len(gd) : gd[j].key = WantedGroup}}

WantedScenarios ==
    UNION {{g.finalDict[k].val : k \in {j \in 1..Len(g.finalDict) :
                                          g.finalDict[j].key = WantedScenario}} :
           g \in WantedGroups}

\* the action at path p of a scenario, when there is one
HasPath(as, p) ==
    /\ p # <<>> /\ p[1] \in 1..Len(as)
    /\ \A n \in 1..(Len(p) - 1) : p[n + 1] \in 1..Len(GetAt(as, SubSeq(p, 1, n)).actions)

\* C11: a run whose group and scenario exist runs the scenario of the
\* wanted name in the group of the wanted name: every action whose run is
\* called is an action of that scenario, a finished run called the run of
\* each of its top-level actions, and every call the editor records is the
\* call of an action of that scenario whose flag is the phase of the run,
\* with that action's name and formatted content.
C11_SelectsScenario ==
    (Started /\ WantedGroups # {} /\ WantedScenarios # {}) =>
        /\ runLoc.s # 0
        /\ \E sc \in WantedScenarios :
              /\ \A p \in Visited : HasPath(sc.actions, p)
              /\ status = "done" => \A k \in 1..Len(sc.actions) : <<k>> \in Visited
              /\ \A k \in 1..Len(Calls) :
                    LET a == GetAt(sc.actions, Calls[k].path) IN
                    /\ a.dynamic = dynamic
                    /\ Calls[k].call.name = a.name
                    /\ Calls[k].call.method = MethodOf(a.tag)
                    /\ a.tag # "delete" => Calls[k].call.content = a.formattedContent

\* a finished static run for a group that is not the default and a
\* scenario that is not the baseline, with a call recorded
C11_Witness ==
    /\ Started /\ status = "done" /\ Calls # <<>>
    /\ \/ /\ editor.groupName = <<"grp-", "2">>
          /\ heap[runLoc.inst].defaultGroup = <<"grp-", "1">>
          /\ Calls[1].call.content = <<"path-", "2", ".xml">>
       \/ /\ editor.scenario = <<"s-", "c">>
          /\ editor.baseline = <<"base">>
          /\ Calls[1].call.name = <<"blank">>

\* C12: a run whose wanted group is not an expanded group, or whose wanted
\* scenario is not a scenario of that group, raises a lookup error before
\* any action runs and before the editor is called; the error for the
\* scenario names the wanted scenario as the scenario and the group as the
\* group it was looked up in.
C12_LookupErrors ==
    Started =>
        /\ WantedGroups = {} =>
              /\ status = "raised" /\ raised.err = "KeyError"
              /\ raised.key = WantedGroup
              /\ Calls = <<>> /\ visited = <<>>
        /\ (WantedGroups # {} /\ WantedScenarios = {}) =>
              /\ status = "raised" /\ raised.err = "PygcamException"
              /\ Calls = <<>> /\ visited = <<>>
              /\ raised.scenario = WantedScenario
              /\ raised.group = WantedGroup

\* v occurs in the text s
Mentions(s, v) ==
    s # None /\ \E n \in 1..(Len(s) - Len(v) + 1) : SubSeq(s, n, n + Len(v) - 1) = v

\* C13: after expansion the content of an action that names {scenarioDir}
\* or {baselineDir} still names it, and in every run the content the editor
\* gets for such an action holds the value of the directories of that run.
C13_DeferredDirectories ==
    /\ \A n \in 1..Len(heap) : \A g \in 1..Len(heap[n].groupDict) :
          \A t \in 1..Len(heap[n].groupDict[g].val.finalDict) :
             LET as == heap[n].groupDict[g].val.finalDict[t].val.actions IN
             \A k \in 1..Len(as) :
                (runs = 0 /\ as[k].tag # "if" /\ Mentions(as[k].content, PhScenarioDir))
                    => Mentions(as[k].formattedContent, PhScenarioDir)
    /\ InRun =>
          \A k \in 1..Len(Calls) :
             LET a == ActionAt(Calls[k].path) IN
             /\ Mentions(a.content, PhScenarioDir)
                   => Mentions(Calls[k].call.content, directoryDict[<<"scenarioDir">>])
             /\ Mentions(a.content, PhBaselineDir)
                   => Mentions(Calls[k].call.content, directoryDict[<<"baselineDir">>])

\* C18: the name the editor gets for an action whose name attribute is
\* "n{j}", in the scenario expanded for the value v of j, is "n" followed
\* by v; no name or after argument the editor gets holds a placeholder.
C18_NamesFormatted ==
    InRun =>
        \A k \in 1..Len(Calls) :
           LET a == ActionAt(Calls[k].path) IN
           /\ (a.name = <<"n">> \o PhJ /\ RunScenario.name[1] = "s-")
                 => Calls[k].call.name = <<"n", RunScenario.name[2]>>
           /\ ~Mentions(Calls[k].call.name, <<"{">>)
           /\ ~Mentions(Calls[k].call.after, <<"{">>)

\* ------------------------------------------------------------------------
\* Function actions
\* ------------------------------------------------------------------------
\* a <function> element
FunctionNode(name, dyn, text) == LeafNode("function", name, dyn, text)

\* One group "g": a baseline with a static and a dynamic call of known
\* methods around an add; scenarios whose function names no known method
\* (static, and dynamic with content that fails to format at run time), or
\* has arguments that do not parse (dynamic, and static under an <if>
\* whose condition holds), or is wrong under an <if> whose condition fails.
DocFunctions ==
    SetupNode(<<"g">>, <<>>,
        <<GroupNode(<<"g">>, None, None,
            <<ScenNode(<<"base">>, TRUE, None,
                <<FunctionNode(<<"setStopPeriod">>, FALSE, <<"2050">>),
                  LeafNode("add", <<"file">>, FALSE, <<"f.xml">>),
                  FunctionNode(<<"setClimateOutputInterval">>, TRUE, None)>>),
              ScenNode(<<"unknown">>, FALSE, None,
                <<LeafNode("add", <<"first">>, FALSE, <<"f.xml">>),
                  FunctionNode(<<"noSuchMethod">>, FALSE, <<"1">>),
                  FunctionNode(<<"noSuchMethod">>, TRUE, <<"{", "{", "x", "}", "}">>),
                  LeafNode("add", <<"later">>, TRUE, <<"l.xml">>)>>),
              ScenNode(<<"badargs">>, FALSE, None,
                <<FunctionNode(<<"setStopPeriod">>, TRUE, <<"(", "2050">>),
                  IfNode(<<"x">>, <<"x">>, TRUE,
                      <<FunctionNode(<<"setStopPeriod">>, FALSE, <<"1", ",", "(">>)>>)>>),
              ScenNode(<<"nested">>, FALSE, None,
                <<IfNode(<<"x">>, <<"y">>, TRUE,
                      <<FunctionNode(<<"noSuchMethod">>, FALSE, <<"(">>)>>),
                  FunctionNode(<<"setStopPeriod">>, FALSE, PhScenarioDir)>>)>>)>>)

\* the same group with calls of known methods only
DocGoodFunctions ==
    SetupNode(<<"g">>, <<>>,
        <<GroupNode(<<"g">>, None, None,
            <<ScenNode(<<"base">>, TRUE, None,
                <<FunctionNode(<<"setStopPeriod">>, FALSE, <<"2050">>),
                  IfNode(<<"x">>, <<"x">>, TRUE,
                      <<FunctionNode(<<"setClimateOutputInterval">>, TRUE,
                                     <<"1", ",", " ", "2">>)>>)>>)>>)>>)

FunctionEditors ==
    [groupName : {None},
     scenario : {None, <<"unknown">>, <<"badargs">>, <<"nested">>},
     baseline : {<<"base">>}, calls : {<<>>}]

InitFunction ==
    /\ files = [p \in Paths |-> IF p = "a.xml" THEN DocFunctions ELSE DocGoodFunctions]
    /\ IdleParse /\ IdleRun /\ IdleIter /\ IdleFormat

NextFunction ==
    \/ \E filename \in Paths : Parse(filename)
    \/ \E inst \in 1..2, ed \in FunctionEditors, dd \in DirectoryDicts, dyn \in BOOLEAN :
          ScenarioSetupRun(inst, ed, dd, dyn)
    \/ ConfigActionRun
    \/ IfRun
    \/ ScenarioRunReturn

SpecFunction == InitFunction /\ [][NextFunction]_vars

\* a function action that names no known method, or whose argument text
\* leaves a parenthesis open
WrongFunction(a) ==
    a.tag = "function" /\ (a.name \notin CallableMethods \/ Mentions(a.content, <<"(">>))

RECURSIVE HasWrongFunction(_)
HasWrongFunction(node) ==
    \/ (node.tag = "function"
        /\ (node.name \notin CallableMethods \/ Mentions(node.text, <<"(">>)))
    \/ \E k \in 1..Len(node.children) : HasWrongFunction(node.children[k])

DocHasWrongFunction(doc) ==
    \E g \in 1..Len(doc.groups) : \E t \in 1..Len(doc.groups[g].scenarios) :
       \E k \in 1..Len(doc.groups[g].scenarios[t].actions) :
          HasWrongFunction(doc.groups[g].scenarios[t].actions[k])

\* C15: parsing a document that holds a function action of an unknown
\* method or of arguments that do not parse raises SetupException and
\* gives no instance, so that no run is made on it.
C15_ErrorsAtParse ==
    /\ (lastParse.path # "" /\ DocHasWrongFunction(files[lastParse.path]))
          => (lastParse.ret = 0 /\ lastParse.err = "SetupException")
    /\ \A p \in DOMAIN documentCache : ~DocHasWrongFunction(files[p])

\* ------------------------------------------------------------------------
\* XmlEditorSubclass.setupStatic
\* ------------------------------------------------------------------------
\* s.split('/')
RECURSIVE SplitSlashFrom(_, _, _, _)
SplitSlashFrom(s, i, cur, acc) ==
    IF i > Len(s) THEN Append(acc, cur)
    ELSE IF s[i] = "/" THEN SplitSlashFrom(s, i + 1, <<>>, Append(acc, cur))
    ELSE SplitSlashFrom(s, i + 1, Append(cur, s[i]), acc)

\* scenario_dir_rel of an editor of the scenario `name` of a group, as the
\* editor base class computes it
ScenarioDirRel(groupName, name) == groupName \o <<"/">> \o name

\* no parent editor, and the parent XmlEditorSubclass(baselineName, None,
\* ..., groupName, subdir) constructs
NoParent == [set |-> FALSE, baseline |-> None, groupName |-> None, scenarioDir |-> None]

ParentEditor(groupName, baselineName) ==
    [set |-> TRUE, baseline |-> baselineName, groupName |-> groupName,
     scenarioDir |-> ScenarioDirRel(groupName, baselineName)]

\* "if scenario.isBaseline"
IsBaseline(scenario) == scenario.isBaseline

\* setupStatic, the part under "if not self.parent": the parent found for
\* the editor through the baselineSource of its group, or the error raised
FindParent(setup, ed) ==
    IF ed.parent.set THEN [err |-> NoRaise, parent |-> ed.parent]
    ELSE LET gk == GroupKey(setup, ed) IN
    IF ~OdHas(setup.groupDict, gk)
    THEN [err |-> [RaisedAt("KeyError", <<>>) EXCEPT !.key = gk], parent |-> NoParent]
    ELSE LET baselineSource == OdGet(setup.groupDict, gk).baselineSource IN
    IF ~Truthy(baselineSource) THEN [err |-> NoRaise, parent |-> NoParent]
    ELSE LET parts == SplitSlashFrom(baselineSource, 1, <<>>, <<>>) IN
    IF Len(parts) # 2 THEN [err |-> RaisedAt("SetupException", <<>>), parent |-> NoParent]
    ELSE IF ~OdHas(setup.groupDict, parts[1])
    THEN [err |-> [RaisedAt("KeyError", <<>>) EXCEPT !.key = parts[1]], parent |-> NoParent]
    ELSE LET parentGroup == OdGet(setup.groupDict, parts[1]) IN
    IF ~OdHas(parentGroup.finalDict, parts[2])
    THEN [err |-> ScenarioNotFound(parentGroup, parts[2]), parent |-> NoParent]
    ELSE IF IsBaseline(OdGet(parentGroup.finalDict, parts[2]))
    THEN [err |-> NoRaise, parent |-> ParentEditor(parts[1], parts[2])]
    ELSE [err |-> NoRaise, parent |-> NoParent]

\* the editor after "if self.parent": baseline_dir_rel and the baselineDir
\* of its directoryDict are those of the parent
PatchBaselineDir(ed) ==
    IF ed.parent.set
    THEN [ed EXCEPT !.baselineDirRel = ed.parent.scenarioDir,
                    !.directoryDict = DictPut(@, <<"baselineDir">>, ed.parent.scenarioDir)]
    ELSE ed

\* the editor after "if self.mcsMode and not self.parent"
AddMcsValues(ed) ==
    IF ed.mcsMode /\ ~ed.parent.set
    THEN [ed EXCEPT !.calls = Append(@,
            [call |-> [method |-> "addScenarioComponent", name |-> <<"mcsValues">>,
                       content |-> ed.scenarioDirRel \o <<"/", "mcsValues.xml">>,
                       after |-> None],
             path |-> <<>>])]
    ELSE ed

\* XmlEditorSubclass.setupStatic(args) of an editor whose setup file was
\* parsed when it was constructed: the group is taken from args, a parent
\* is looked for, the baseline directory patched, and the static pass run.
\* (The setupStatic of the editor base class changes nothing modelled.)
SetupStatic(filename, ed, group) ==
    /\ status # "running" /\ pending = <<>>
    /\ runs < MaxRuns
    /\ filename \in DOMAIN documentCache
    /\ LET inst == documentCache[filename]
           ed1 == [ed EXCEPT !.groupName = group]
           found == FindParent(heap[inst], ed1)
           ed2 == AddMcsValues(PatchBaselineDir([ed1 EXCEPT !.parent = found.parent]))
       IN  IF found.err # NoRaise
           THEN /\ status' = "raised"
                /\ raised' = found.err
                /\ editor' = ed1
                /\ directoryDict' = ed1.directoryDict
                /\ dynamic' = FALSE
                /\ runLoc' = [inst |-> inst, g |-> 0, s |-> 0]
                /\ visited' = <<>>
                /\ runs' = runs + 1
                /\ UNCHANGED <<runStart, pending, files, parseVars, iterVars, fmtVars>>
           ELSE ScenarioSetupRun(inst, ed2, ed2.directoryDict, FALSE)

\* A group "ref" with a baseline "base" and a scenario "other" that is
\* not one; groups whose baselineSource names the baseline, has no slash,
\* has two, names the scenario that is no baseline, names a scenario or a
\* group that does not exist; and a group without baselineSource.
BaselineGroup(name, baselineSource) ==
    GroupNode(name, None, baselineSource,
        <<ScenNode(<<"base">>, TRUE, None,
            <<LeafNode("replace", <<"rep">>, FALSE, PhBaselineDir \o <<"/r.xml">>),
              LeafNode("add", <<"dyn">>, TRUE, <<"d.xml">>)>>),
          ScenNode(<<"pol">>, FALSE, None,
            <<LeafNode("add", <<"pol">>, FALSE, PhBaselineDir \o <<"/p.xml">>)>>)>>)

DocBaselines ==
    SetupNode(<<"plain">>, <<>>,
        <<GroupNode(<<"ref">>, None, None,
            <<ScenNode(<<"base">>, TRUE, None,
                <<LeafNode("add", <<"ref">>, FALSE, PhScenarioDir \o <<"/b.xml">>)>>),
              ScenNode(<<"other">>, FALSE, None, <<>>)>>),
          BaselineGroup(<<"ok">>, <<"ref", "/", "base">>),
          BaselineGroup(<<"noslash">>, <<"ref", "base">>),
          BaselineGroup(<<"slashes">>, <<"ref", "/", "base", "/", "x">>),
          BaselineGroup(<<"nonbase">>, <<"ref", "/", "other">>),
          BaselineGroup(<<"noscen">>, <<"ref", "/", "none">>),
          BaselineGroup(<<"nogroup">>, <<"none", "/", "base">>),
          BaselineGroup(<<"plain">>, None)>>)

StaticGroups ==
    {None, <<"ok">>, <<"noslash">>, <<"slashes">>, <<"nonbase">>, <<"noscen">>,
     <<"nogroup">>, <<"absent">>}

\* The editors XmlEditorSubclass.__init__ gives: one of a baseline has no
\* parent, one of another scenario has the editor of its baseline as parent.
StaticEditor(scenario, mcsMode) ==
    [groupName |-> None, scenario |-> scenario, baseline |-> <<"base">>, calls |-> <<>>,
     mcsMode |-> mcsMode,
     parent |-> IF scenario = None THEN NoParent ELSE ParentEditor(<<"own">>, <<"base">>),
     scenarioDirRel |-> <<"sd">>, baselineDirRel |-> <<"bd">>,
     directoryDict |-> DictPut(DictPut(<<>>, <<"scenarioDir">>, <<"sd">>),
                               <<"baselineDir">>, <<"bd">>)]

StaticEditors == {StaticEditor(sc, m) : sc \in {None, <<"pol">>}, m \in BOOLEAN}

InitStatic ==
    /\ files = [p \in Paths |-> IF p = "a.xml" THEN DocBaselines ELSE DocActions]
    /\ IdleParse /\ IdleRun /\ IdleIter /\ IdleFormat

NextStatic ==
    \/ \E filename \in Paths : Parse(filename)
    \/ \E filename \in Paths, ed \in StaticEditors, group \in StaticGroups :
          SetupStatic(filename, ed, group)
    \/ ConfigActionRun
    \/ IfRun
    \/ ScenarioRunReturn

SpecStatic == InitStatic /\ [][NextStatic]_vars

\* the baselineSource of the group a static setup is made for, when the
\* group exists and declares one
SourceOfRun ==
    IF WantedGroups = {} THEN None
    ELSE (CHOOSE g \in WantedGroups : TRUE).baselineSource

\* the scenarios of the instance of the run named by "group/scenario"
Referenced(src) ==
    LET gd == heap[runLoc.inst].groupDict IN
    UNION {{gd[g].val.finalDict[t].val :
               t \in {j \in 1..Len(gd[g].val.finalDict) : gd[g].val.finalDict[j].key = <<src[3]>>}} :
           g \in {j \in 1..Len(gd) : gd[j].key = <<src[1]>>}}

WellFormed(src) == Len(src) = 3 /\ src[2] = "/" /\ src[1] # "/" /\ src[3] # "/"

\* C16: in the static setup of an editor of a baseline (it has no parent)
\* for a group with a baselineSource: a source that is not "group/scenario"
\* and a source naming a scenario that is no baseline raise SetupException,
\* no action is run and the editor is not called; a source naming a
\* baseline gives the editor a parent for that baseline of that group, and
\* the baselineDir of the directories of the run is the parent's scenario
\* directory from the first action on.
C16_BaselineSource ==
    (Started /\ editor.scenario = None /\ Truthy(SourceOfRun)) =>
        LET src == SourceOfRun IN
        /\ ~WellFormed(src) =>
              /\ status = "raised" /\ raised.err = "SetupException"
              /\ visited = <<>> /\ Calls = <<>>
        /\ (WellFormed(src) /\ \E sc \in Referenced(src) : ~sc.isBaseline) =>
              /\ status = "raised" /\ raised.err = "SetupException"
              /\ visited = <<>> /\ Calls = <<>>
        /\ (WellFormed(src) /\ \E sc \in Referenced(src) : sc.isBaseline) =>
              /\ editor.parent.set
              /\ editor.parent.baseline = <<src[3]>>
              /\ editor.parent.groupName = <<src[1]>>
              /\ directoryDict[<<"baselineDir">>] = editor.parent.scenarioDir
              /\ \A k \in 1..Len(Calls) :
                    Mentions(ActionAt(Calls[k].path).content, PhBaselineDir)
                       => Mentions(Calls[k].call.content, editor.parent.scenarioDir)

\* ------------------------------------------------------------------------
\* Templates over undeclared iterators
\* ------------------------------------------------------------------------
\* the iterator names a document's templates list and does not declare
Undeclared(doc) ==
    LET declared == {doc.iterators[k].name : k \in 1..Len(doc.iterators)}
        attrs == {doc.groups[g].iterator : g \in 1..Len(doc.groups)}
                 \cup UNION {{doc.groups[g].scenarios[t].iterator :
                                 t \in 1..Len(doc.groups[g].scenarios)} :
                             g \in 1..Len(doc.groups)}
        listed == UNION {{TrimmedItem(a, k) : k \in 1..(Cardinality(CommaPos(a)) + 1)} :
                         a \in {b \in attrs : b # None /\ b # <<>>}}
    IN  listed \ declared

\* C24: a parse of a document with a template over an undeclared iterator
\* raises an error that names such an iterator, returns no instance and
\* stores none in the cache; every parse of that path constructs anew and
\* fails again, none is answered from the cache, and no run is made on an
\* instance of it.
C24_UndeclaredIterator ==
    /\ (lastParse.path # "" /\ Undeclared(files[lastParse.path]) # {}) =>
          /\ lastParse.err # "none"
          /\ lastParse.arg \in Undeclared(files[lastParse.path])
          /\ lastParse.ret = 0
          /\ ~lastParse.cached
    /\ \A p \in DOMAIN files :
          Undeclared(files[p]) # {} =>
              /\ p \notin DOMAIN documentCache
              /\ p \notin DOMAIN firstParsed
              /\ built[p] = 0
    /\ \A n \in 1..Len(heap) : \E p \in DOMAIN documentCache : documentCache[p] = n

\* a parse of the document over the undeclared iterator i failed a second
\* time, while the other path was parsed into the cache
C24_Witness ==
    /\ lastParse.again /\ lastParse.err = "SetupException"
    /\ lastParse.arg = <<"i">>
    /\ files[lastParse.path] = DocUndeclared
    /\ documentCache # <<>>
    /\ lastParse.path \notin DOMAIN documentCache

\* ------------------------------------------------------------------------
\* Templates without an iterator after templates with one
\* ------------------------------------------------------------------------
\* the text c followed by a placeholder for the name in ref, if there is one
Named(c, ref) == IF ref = <<>> THEN <<c>> ELSE <<c>> \o Ph(ref[1])

\* a <setup> with the iterators X and Y and two group templates: g, over
\* giter, holds the scenario template s over siter and after it the
\* scenario template v without iterator; t, without iterator, holds the
\* scenario template u without iterator.  The names of g and s name the
\* iterators they list; those of v, t and u (and u's content) name vref,
\* tref and uref.
ContextDoc(xs, ys, giter, siter, vref, tref, uref) ==
    SetupNode(<<"g">>,
        <<ListIter(<<"X">>, JoinComma(xs)), ListIter(<<"Y">>, JoinComma(ys))>>,
        <<GroupNode(<<"g">> \o Placeholders(<<"X", "Y">>, {giter}), giter, None,
            <<ScenNode(<<"s">> \o Placeholders(<<"X", "Y">>, {giter, siter}), FALSE, siter,
                       <<>>),
              ScenNode(Named("v", vref), FALSE, None, <<>>)>>),
          GroupNode(Named("t", tref), None, None,
            <<ScenNode(Named("u", uref), FALSE, None,
                       <<LeafNode("add", <<"file">>, FALSE, Named("c", uref))>>)>>)>>)

ContextDocs ==
    {ContextDoc(xs, ys, giter, siter, vref, tref, uref) :
        xs \in SeqsUpTo({"1", "2"}, MaxVals), ys \in SeqsUpTo({"a", "b"}, MaxVals),
        giter \in {None, <<"X">>, <<"X", ",", "Y">>},
        siter \in {None, <<"Y">>},
        vref \in {<<>>, <<"Y">>}, tref \in {<<>>, <<"X">>},
        uref \in {<<>>, <<"X">>, <<"Y">>}}

InitContext ==
    /\ files \in [{"a.xml"} -> ContextDocs]
    /\ IdleParse /\ IdleRun /\ IdleIter /\ IdleFormat

NextContext == \E filename \in DOMAIN files : Parse(filename)

SpecContext == InitContext /\ [][NextContext]_vars

\* the expand callbacks made for the templates whose name starts with c
CallsOf(c) == SelectSeq(expandTrace, LAMBDA e : e.name[1] = c)

\* the iterator names the templates g and s list
BoundNames ==
    {<<n>> : n \in {m \in {"X", "Y"} :
                       \E a \in {TheGroup.iterator, TheScenario.iterator} :
                           a # None /\ InSeq(m, a)}}

\* the iterator names the templates v, t and u refer to
ReferredNames ==
    {<<n>> : n \in {m \in {"X", "Y"} :
                       \E nm \in {TheGroup.scenarios[2].name, TheDoc.groups[2].name,
                                  TheDoc.groups[2].scenarios[1].name} : InSeq(m, nm)}}

\* a template text with its placeholder, if any, replaced by the last
\* value of the iterator it names
WithLast(t) ==
    IF Len(t) = 1 THEN t
    ELSE <<t[1]>> \o heap[1].iteratorDict[<<t[3]>>].values[
                         Len(heap[1].iteratorDict[<<t[3]>>].values)]

\* C22: a template without iterator is expanded once (v once in each
\* expansion of its group g, t and u once) and leaves the template
\* context as it finds it; after the iterated templates every iterator
\* name they list stays bound to the last value of its sequence, and when
\* v, t and u refer only to such names the parse succeeds with their names
\* and u's content formatted with those last values.  A reference to a
\* name no earlier template has bound is a KeyError.
C22_ContextPersists ==
    lastParse.path = "a.xml" =>
        IF ReferredNames \subseteq BoundNames
        THEN /\ lastParse.err = "none"
             /\ Len(CallsOf("t")) = 1 /\ Len(CallsOf("u")) = 1
             /\ Len(CallsOf("v")) = Len(CallsOf("g"))
             /\ \A k \in 2..Len(expandTrace) :
                   expandTrace[k].name[1] = "v" =>
                       /\ expandTrace[k - 1].name[1] = "s"
                       /\ expandTrace[k].td = expandTrace[k - 1].td
             /\ CallsOf("u")[1].td = CallsOf("t")[1].td
             /\ heap[1].templateDict = CallsOf("t")[1].td
             /\ \A n \in BoundNames :
                   heap[1].templateDict[n]
                       = heap[1].iteratorDict[n].values[Len(heap[1].iteratorDict[n].values)]
             /\ DOMAIN heap[1].templateDict = DOMAIN InitialTemplateDict \cup BoundNames
             /\ CallsOf("t")[1].name = WithLast(TheDoc.groups[2].name)
             /\ CallsOf("u")[1].name = WithLast(TheDoc.groups[2].scenarios[1].name)
             /\ CallsOf("v")[Len(CallsOf("v"))].name = WithLast(TheGroup.scenarios[2].name)
             /\ OdGet(OdGet(heap[1].groupDict, WithLast(TheDoc.groups[2].name)).finalDict,
                      WithLast(TheDoc.groups[2].scenarios[1].name)).actions[1].formattedContent
                   = WithLast(TheDoc.groups[2].scenarios[1].actions[1].text)
        ELSE lastParse.err = "KeyError"

\* g over X = 1, 2 and s over Y = a, b, then v{Y}, t{X} and u{Y} without
\* iterator, expanded as vb, t2 and ub
C22_Witness ==
    /\ lastParse.path = "a.xml" /\ lastParse.err = "none"
    /\ TheGroup.iterator = <<"X">> /\ TheScenario.iterator = <<"Y">>
    /\ ValuesOf("X") = <<<<"1">>, <<"2">>>>
    /\ ValuesOf("Y") = <<<<"a">>, <<"b">>>>
    /\ CallsOf("v")[2].name = <<"v", "b">>
    /\ CallsOf("t")[1].name = <<"t", "2">>
    /\ CallsOf("u")[1].name = <<"u", "b">>

\* ------------------------------------------------------------------------
\* The expanded setup written out as XML
\* ------------------------------------------------------------------------
\* If.writeXML: "(self.formattedValue1 in values) == self.matches", values
\* being formattedValue2.split(','), the items as they stand
IfWriteCondition(a) ==
    InSeq(a.formattedValue1, StrSplit(a.formattedValue2)) = a.matches

\* __str__ of ConfigAction, Insert, Delete and Function: the element
\* written for a leaf action, as the values put into its text (None where
\* the class's text has no such part)
ActionStr(a) ==
    [tag |-> a.tag,
     name |-> a.name,
     after |-> IF a.tag = "insert" /\ Truthy(a.after) THEN a.after ELSE None,
     content |-> IF a.tag = "delete" THEN None ELSE Or(a.formattedContent, a.content),
     dynamic |-> a.tag = "function" /\ a.dynamic]

\* obj.writeXML(stream, indent) for the actions of a list from the k-th
\* on: a leaf action writes its element, an If writes its children when
\* its condition holds and nothing else.  Each element written is kept
\* with the path of its action.
RECURSIVE ActionsWriteXML(_, _, _)
ActionsWriteXML(as, prefix, k) ==
    IF k > Len(as) THEN <<>>
    ELSE (IF as[k].tag # "if" THEN <<[path |-> Append(prefix, k), str |-> ActionStr(as[k])]>>
          ELSE IF IfWriteCondition(as[k])
               THEN ActionsWriteXML(as[k].actions, Append(prefix, k), 1)
               ELSE <<>>)
         \o ActionsWriteXML(as, prefix, k + 1)

\* Scenario.writeXML
ScenarioWriteXML(scenario) ==
    [name |-> scenario.name, baseline |-> scenario.isBaseline,
     actions |-> ActionsWriteXML(scenario.actions, <<>>, 1)]

\* ScenarioGroup.writeXML (the useGroupDir attribute is left out)
ScenarioGroupWriteXML(group) ==
    [name |-> group.name,
     scenarios |-> [t \in 1..Len(group.finalDict) |->
                       ScenarioWriteXML(group.finalDict[t].val)]]

\* ScenarioSetup.writeXML: the groups of groupDict in order
ScenarioSetupWriteXML(setup) ==
    [g \in 1..Len(setup.groupDict) |-> ScenarioGroupWriteXML(setup.groupDict[g].val)]

\* what writeXML of the instance of the run writes for the scenario run
WrittenForRun ==
    ScenarioSetupWriteXML(heap[runLoc.inst])[runLoc.g].scenarios[runLoc.s].actions

WrittenPaths == {WrittenForRun[k].path : k \in 1..Len(WrittenForRun)}

\* the text t holds a placeholder for an iterator of the instance of the run
HasIteratorPlaceholder(t) ==
    \E n \in DOMAIN heap[runLoc.inst].iteratorDict : Mentions(t, <<"{">> \o n \o <<"}">>)

\* C21: once a run is done, the setup written out holds the element of a
\* child of an If exactly when the run called that child's run, for every
\* If the run came to, and no name, after or content written holds a
\* placeholder for an iterator.
C21_WriteXMLAudit ==
    (InRun /\ status = "done") =>
        /\ \A p \in IfPaths : \A c \in ChildSet(p) :
              ActionAt(c).tag # "if" => (c \in WrittenPaths <=> c \in Visited)
        /\ \A k \in 1..Len(WrittenForRun) :
              /\ ~HasIteratorPlaceholder(WrittenForRun[k].str.name)
              /\ ~HasIteratorPlaceholder(WrittenForRun[k].str.after)
              /\ ~HasIteratorPlaceholder(WrittenForRun[k].str.content)

\* ------------------------------------------------------------------------
\* The range generators, one pass of the loop at a time
\* ------------------------------------------------------------------------
MaxEmit == 8

\* the text of 2^53 = 9007199254740992 without its last digit
Text2To53 == "900719925474099"

\* int(text) or float(text) for the text of an integer: of a small one, or
\* of one from 2^53 to 2^53 + 7
ParseNum(text) ==
    IF Head(text) = Text2To53 THEN Num(1, DigitVal(text[2]) - 2)
    ELSE Num(0, ParseInt(text))

\* '%d' % v and '%.1f' % v
FormatNum(type, v) ==
    IF v.hi = 0 THEN (IF type = "int" THEN FormatD(v.lo) ELSE FormatF(v.lo))
    ELSE <<Text2To53, Digit(v.lo + 2)>> \o (IF type = "int" THEN <<>> ELSE <<".", "0">>)

\* a <= b
NumLeq(a, b) == a.hi < b.hi \/ (a.hi = b.hi /\ a.lo <= b.lo)

\* a + s on Python ints, which are exact
IntAdd(a, s) == Num(a.hi, a.lo + s.lo)

\* a + s on IEEE doubles, s being small: exact up to 2^53; from there to
\* 2^54 the doubles are the even integers, and an odd sum goes to the
\* neighbour whose half is even (round to nearest, ties to even)
FloatAdd(a, s) ==
    LET lo == a.lo + s.lo IN
    IF a.hi = 0 \/ lo <= 0 \/ lo % 2 = 0 THEN Num(a.hi, lo)
    ELSE Num(1, IF (lo - 1) % 4 = 0 THEN lo - 1 ELSE lo + 1)

\* a "start += step" that always moves forward, by 1 when the step is not
\* positive
RangeNextForward(type, start, step) ==
    IntAdd(start, IF step.lo > 0 THEN step ELSE Num(0, 1))

\* irange, frange: "start += step"
RangeNext(type, start, step) ==
    IF type = "int" THEN IntAdd(start, step) ELSE FloatAdd(start, step)

\* the min, max and step Iterator.__init__ reads from the element
GenMin == ParseNum(itNode.min)
GenMax == ParseNum(itNode.max)
GenStep == IF itNode.step = None THEN Num(0, 1) ELSE ParseNum(itNode.step)

\* a number as the field of an Iterator
FieldOf(v) == IF v.hi = 0 THEN v.lo ELSE v

\* int iterators with steps of either sign and 0
IntRangeNodes ==
    {IterNode(<<"n">>, "int", FormatD(mn), FormatD(mx), st, None) :
        mn \in (0 - 1)..MaxNum, mx \in (0 - 1)..MaxNum,
        st \in {None} \cup {FormatD(k) : k \in (0 - 1)..2}}

\* float iterators of small values, and of values from 2^53 on
FloatRangeNodes ==
    {IterNode(<<"n">>, "float", FormatD(mn), FormatD(mx), st, None) :
        mn \in 0..2, mx \in 0..2, st \in {None, <<"2">>, <<"0">>, <<"-", "1">>}}
    \cup
    {IterNode(<<"n">>, "float", <<Text2To53, mn>>, <<Text2To53, mx>>, st, None) :
        mn \in {"2", "4"}, mx \in {"2", "4", "6"},
        st \in {<<"1">>, <<"2">>, <<"3">>, <<"-", "1">>}}

RangeNodes == IntRangeNodes \cup FloatRangeNodes \cup LackingIterNodes

InitRange ==
    /\ itNode \in RangeNodes
    /\ itObj = Unbuilt /\ gen = IdleGen
    /\ files = <<>>
    /\ IdleParse /\ IdleRun /\ IdleFormat

\* Iterator.__init__(node) of a numeric element, up to the call of map on
\* the generator: without min or max it raises; else the generator starts
\* at min, whatever the step
IteratorStart ==
    /\ itObj = Unbuilt /\ gen.pc = "idle"
    /\ IF ~HasMinMax(itNode)
       THEN itObj' = Raise("SetupException") /\ gen' = gen
       ELSE itObj' = itObj /\ gen' = [pc |-> "loop", cur |-> GenMin, out |-> <<>>]
    /\ UNCHANGED <<files, parseVars, runVars, itNode, fmtVars>>

\* one pass of "while start <= stop: yield start; start += step"
RangeYield ==
    /\ gen.pc = "loop" /\ Len(gen.out) < MaxEmit
    /\ NumLeq(gen.cur, GenMax)
    /\ gen' = [gen EXCEPT !.out = Append(@, gen.cur),
                          !.cur = RangeNext(itNode.type, gen.cur, GenStep)]
    /\ UNCHANGED <<files, parseVars, runVars, itNode, itObj, fmtVars>>

\* start > stop: the generator is exhausted, map returns the formatted
\* values and the constructor returns
RangeReturn ==
    /\ gen.pc = "loop"
    /\ ~NumLeq(gen.cur, GenMax)
    /\ gen' = [gen EXCEPT !.pc = "done"]
    /\ itObj' = Ok([name |-> itNode.name, type |-> itNode.type,
                    min |-> FieldOf(GenMin), max |-> FieldOf(GenMax),
                    step |-> FieldOf(GenStep),
                    values |-> [k \in 1..Len(gen.out) |->
                                   FormatNum(itNode.type, gen.out[k])]])
    /\ UNCHANGED <<files, parseVars, runVars, itNode, fmtVars>>

NextRange == IteratorStart \/ RangeYield \/ RangeReturn

\* the interpreter goes on executing the constructor it has entered
SpecRange ==
    InitRange /\ [][NextRange]_vars /\ WF_vars(RangeYield) /\ WF_vars(RangeReturn)

Looping == gen.pc = "loop"

\* the current value is within max and "start += step" does not raise it:
\* the loop goes on from here and comes to no greater value
Stuck ==
    /\ Looping /\ NumLeq(gen.cur, GenMax)
    /\ NumLeq(RangeNext(itNode.type, gen.cur, GenStep), gen.cur)

\* the element has small values only
SmallNode == Head(itNode.min) # Text2To53

\* what the claim says of steps that are not positive, of the number of
\* values of int iterators, and of the constructor's result
RangeSafety ==
    /\ (gen.pc # "idle" /\ GenStep.lo <= 0 /\ NumLeq(GenMin, GenMax)) =>
          /\ Stuck /\ itObj = Unbuilt
          /\ Len(gen.out) < MaxEmit => ENABLED RangeYield
          /\ SmallNode => /\ IteratorInit(itNode).err = "hang"
                          /\ ScenarioSetupInit(SetupNode(<<"g">>, <<itNode>>, <<>>)).err
                                = "hang"
    /\ Stuck => itObj = Unbuilt /\ ~ENABLED RangeReturn
    /\ (gen.pc # "idle" /\ itNode.type = "int" /\ GenStep.lo > 0) =>
          /\ ~Stuck
          /\ Len(gen.out) <= (IF NumLeq(GenMin, GenMax)
                              THEN ((GenMax.lo - GenMin.lo) \div GenStep.lo) + 1 ELSE 0)
          /\ gen.cur = Num(0, GenMin.lo + Len(gen.out) * GenStep.lo)
    /\ gen.pc = "done" =>
          /\ itObj.ok /\ Len(itObj.val.values) = Len(gen.out)
          /\ GenStep.lo > 0 \/ ~NumLeq(GenMin, GenMax)
          /\ SmallNode => itObj = IteratorInit(itNode)

\* C23 as stated, over finite runs: a loop that ends never comes back to a
\* value it has yielded.  With step > 0 the generation of every numeric
\* iterator ends (an int iterator yields at most floor((max - min)/step)
\* + 1 values), so its loop is never at a value within max that adding the
\* step leaves where it is; with step <= 0 and min <= max the loop is
\* always at such a value, no error is raised and the constructor does not
\* return.
C23_PositiveStepTerminates ==
    /\ RangeSafety
    /\ (Looping /\ GenStep.lo > 0) => ~Stuck

\* C23, amended: generation ends for every int iterator with step > 0,
\* after at most floor((max - min)/step) + 1 values, and for a float
\* iterator with step > 0 unless it comes to a value within max that
\* adding the step leaves where it is (2^53 + 1.0 is 2^53); from such a
\* value on, and from the start when step <= 0 and min <= max, the loop
\* never ends: the value stays within max, no error is raised, the
\* constructor does not return and the parse of a document declaring the
\* iterator does not complete.
C23_Termination ==
    /\ []RangeSafety
    /\ [][Stuck => Stuck']_vars
    /\ (Looping /\ ~Stuck) ~> (gen.pc = "done" \/ Stuck)

\* a float iterator from 2^53 with step 1 that has yielded 2^53 three
\* times and is still at 2^53
C23_Witness ==
    /\ Looping /\ itNode.type = "float" /\ GenStep = Num(0, 1)
    /\ Len(gen.out) = 3
    /\ \A k \in 1..3 : gen.out[k] = Num(1, 0)
    /\ gen.cur = Num(1, 0)
    /\ Stuck /\ itObj = Unbuilt

====
